---------------------------- MODULE Spec2Model ----------------------------
(***************************************************************************)
(* Agentic Honey-Pot API: the phase decision, the confidence score, the   *)
(* aggregation of extracted intelligence, the text functions (extraction,  *)
(* behavioural signals, instruction pattern, repetition, scam terms) and   *)
(* the request handler serving several requests.                           *)
(*                                                                         *)
(* Python values are modelled as follows.                                  *)
(*   - a dict is a function whose DOMAIN is the set of its keys;           *)
(*     d.get(k) is DictGet(d, k);                                          *)
(*   - the value of an extraction category is a record                     *)
(*       [kind, list, dict]                                                *)
(*     whose kind is "list" (a Python list, in field list), "dict" (a      *)
(*     Python dict of sub-key -> list, in field dict) or "none" (None);    *)
(*     isinstance(v, list) and isinstance(v, dict) read the kind;          *)
(*   - None for the instruction label is the string NoneLabel;            *)
(*   - the confidence is kept in hundredths (0.5 is 50): every term of     *)
(*     the score is a multiple of 0.05, so the hundredths are exact.       *)
(*   - a str is the sequence of its characters, each a one-character     *)
(*     string; None passed as a text is NoneText.                          *)
(***************************************************************************)
EXTENDS Integers, Sequences, FiniteSets, TLC

VARIABLES
    pc,            \* position of the computation under check
    history_len,   \* decide_phase / calculate_confidence: history_len
    extracted,     \* ... extracted (the aggregated extraction, a dict)
    behavioral,    \* ... behavioral (dict of signal name -> bool)
    instruction,   \* ... instruction (a label, or NoneLabel)
    phase,         \* result of decide_phase
    confidence,    \* result of calculate_confidence, in hundredths
    history_data,  \* merge_extracted: first argument
    current_data,  \* merge_extracted: second argument
    merged,        \* result of merge_extracted
    text,          \* the message text the detectors are called with
    history,       \* the texts of the conversation history, oldest first
    scam_detected, \* result of is_scam
    hash_order,    \* the order in which this process iterates a set of strings
    requests,      \* the local variables of each request the handler serves
    random_state,  \* how many values the random module's generator has given
    gemini_active  \* gemini_service.is_active

vars == << pc, history_len, extracted, behavioral, instruction, phase,
           confidence, history_data, current_data, merged, text, history,
           scam_detected, hash_order, requests, random_state, gemini_active >>

serverVars == << requests, random_state, gemini_active >>

textVars == << text, history, scam_detected, hash_order >>

classifyVars == << history_len, extracted, behavioral, instruction, phase,
                   confidence >>

mergeVars == << history_data, current_data, merged >>

---------------------------------------------------------------------------
(* Bounds of the model *)

MaxHistoryLen == 11

MaxItems == 2

MaxLen == 2

---------------------------------------------------------------------------
(* Python values *)

NoneLabel == "None"

EmptyMap == [k \in {} |-> << >>]

EmptyDict == [k \in {} |-> 0]

ListValue(l) == [kind |-> "list", list |-> l, dict |-> EmptyMap]

DictValue(d) == [kind |-> "dict", list |-> << >>, dict |-> d]

NoneValue == [kind |-> "none", list |-> << >>, dict |-> EmptyMap]

\* d.get(k): the value under k, None when k is no key of d
DictGet(d, k) == IF k \in DOMAIN d THEN d[k] ELSE NoneValue

\* behavioral.get(k) read as a truth value: a missing key gives None (falsy)
SignalGet(d, k) == IF k \in DOMAIN d THEN d[k] ELSE FALSE

\* len(v) of a category value: items of a list, keys of a dict
PyLen(v) ==
    IF v.kind = "list" THEN Len(v.list)
    ELSE IF v.kind = "dict" THEN Cardinality(DOMAIN v.dict)
    ELSE -1

RECURSIVE SumOver(_, _)
SumOver(f, S) ==
    IF S = {} THEN 0
    ELSE LET x == CHOOSE y \in S : TRUE
         IN  f[x] + SumOver(f, S \ {x})

Min(a, b) == IF a <= b THEN a ELSE b

Max(a, b) == IF a >= b THEN a ELSE b

---------------------------------------------------------------------------
(* utils/phases.py, config.py *)

Phase == {"TRUST", "CONFUSION", "EXTRACTION", "EXIT"}

MIN_CONFIDENCE_THRESHOLD == 30

ListCategories ==
    {"upiIds", "bankAccounts", "phishingLinks", "emailAddresses", "phoneNumbers"}

Categories == ListCategories \cup {"otherPatterns"}

SignalNames ==
    {"urgency", "authorityImpersonation", "fearInduction", "socialEngineering",
     "technicalPretext"}

---------------------------------------------------------------------------
(* services/scam_detector.py: decide_phase *)

\* extracted.get(k, []): the default only replaces a missing key
GetOrEmptyList(d, k) == IF k \in DOMAIN d THEN d[k] ELSE ListValue(<< >>)

\* `instruction and instruction != "general_instruction"`
SpecificInstruction(instr) ==
    instr # NoneLabel /\ instr # "" /\ instr # "general_instruction"

\* decide_phase with its thresholds and the place of the TRUST test as
\* parameters; the variants below are the slips the properties must detect
decide_phase_variant(hl, ext, beh, instr, cap, fearLen, trustLen, trustFirst) ==
    IF SignalGet(beh, "repetition") /\ hl >= 4 THEN "EXIT"
    ELSE IF SignalGet(beh, "urgency") /\ hl >= 4 THEN "EXIT"
    ELSE IF hl >= cap THEN "EXIT"
    ELSE IF trustFirst /\ hl <= trustLen THEN "TRUST"
    ELSE IF SpecificInstruction(instr) THEN "EXTRACTION"
    ELSE IF GetOrEmptyList(ext, "upiIds").list
              \o GetOrEmptyList(ext, "bankAccounts").list
              \o GetOrEmptyList(ext, "emailAddresses").list # << >>
         THEN "EXTRACTION"
    ELSE IF SignalGet(beh, "urgency") \/ SignalGet(beh, "fearInduction")
         THEN (IF hl >= fearLen THEN "EXTRACTION" ELSE "CONFUSION")
    ELSE IF hl <= trustLen THEN "TRUST"
    ELSE "CONFUSION"

\* `history_len > 2` in the urgency / fear rule
decide_phase_fear_gt(hl, ext, beh, instr) ==
    decide_phase_variant(hl, ext, beh, instr, 10, 3, 0, FALSE)

\* `history_len > 10` for the hard cap
decide_phase_cap_gt(hl, ext, beh, instr) ==
    decide_phase_variant(hl, ext, beh, instr, 11, 2, 0, FALSE)

\* the TRUST test placed before the instruction test
decide_phase_trust_first(hl, ext, beh, instr) ==
    decide_phase_variant(hl, ext, beh, instr, 10, 2, 0, TRUE)

\* `history_len <= 1` for TRUST
decide_phase_trust_le1(hl, ext, beh, instr) ==
    decide_phase_variant(hl, ext, beh, instr, 10, 2, 1, FALSE)

\* `history_len >= 3` in the repetition and urgency EXIT rules
decide_phase_exit_ge3(hl, ext, beh, instr) ==
    IF (SignalGet(beh, "repetition") \/ SignalGet(beh, "urgency")) /\ hl >= 3
    THEN "EXIT"
    ELSE decide_phase_variant(hl, ext, beh, instr, 10, 2, 0, FALSE)

decide_phase(hl, ext, beh, instr) ==
    IF SignalGet(beh, "repetition") /\ hl >= 4 THEN "EXIT"
    ELSE IF SignalGet(beh, "urgency") /\ hl >= 4 THEN "EXIT"
    ELSE IF hl >= 10 THEN "EXIT"
    ELSE IF SpecificInstruction(instr) THEN "EXTRACTION"
    ELSE LET upi   == GetOrEmptyList(ext, "upiIds")
             bank  == GetOrEmptyList(ext, "bankAccounts")
             email == GetOrEmptyList(ext, "emailAddresses")
         IN  IF upi.kind # "list" \/ bank.kind # "list" \/ email.kind # "list"
             THEN "TypeError"   \* list + non-list raises
             ELSE LET extraction_targets == upi.list \o bank.list \o email.list
                  IN  IF extraction_targets # << >> THEN "EXTRACTION"
                      ELSE IF SignalGet(beh, "urgency")
                              \/ SignalGet(beh, "fearInduction")
                           THEN (IF hl >= 2 THEN "EXTRACTION" ELSE "CONFUSION")
                      ELSE IF hl = 0 THEN "TRUST"
                      ELSE "CONFUSION"

---------------------------------------------------------------------------
(* main.py: decide_phase, the copy that returns the phase as a string *)

main_decide_phase(hl, ext, beh, instr) ==
    IF SignalGet(beh, "repetition") /\ hl >= 4 THEN "EXIT"
    ELSE IF SignalGet(beh, "urgency") /\ hl >= 4 THEN "EXIT"
    ELSE IF hl >= 10 THEN "EXIT"
    ELSE IF SpecificInstruction(instr) THEN "EXTRACTION"
    ELSE LET upi   == GetOrEmptyList(ext, "upiIds")
             bank  == GetOrEmptyList(ext, "bankAccounts")
             email == GetOrEmptyList(ext, "emailAddresses")
         IN  IF upi.kind # "list" \/ bank.kind # "list" \/ email.kind # "list"
             THEN "TypeError"
             ELSE IF upi.list \o bank.list \o email.list # << >> THEN "EXTRACTION"
             ELSE IF SignalGet(beh, "urgency") \/ SignalGet(beh, "fearInduction")
                  THEN (IF hl >= 2 THEN "EXTRACTION" ELSE "CONFUSION")
             ELSE IF hl = 0 THEN "TRUST"
             ELSE "CONFUSION"

---------------------------------------------------------------------------
(* services/scam_detector.py: calculate_confidence *)

\* sum(len(v) for v in extracted.values())
extracted_count(ext) ==
    SumOver([k \in DOMAIN ext |-> PyLen(ext[k])], DOMAIN ext)

\* the score returned without the ceiling: max(MIN_CONFIDENCE_THRESHOLD, score)
calculate_confidence_no_ceiling(ext, beh, hl, instr) ==
    Max(MIN_CONFIDENCE_THRESHOLD,
        50 + Min(15 * extracted_count(ext), 20)
           + (IF SignalGet(beh, "urgency") THEN 15 ELSE 0)
           + (IF SignalGet(beh, "fearInduction") THEN 10 ELSE 0)
           + (IF SignalGet(beh, "authorityImpersonation") THEN 10 ELSE 0)
           + (IF SignalGet(beh, "technicalPretext") THEN 5 ELSE 0)
           + (IF SpecificInstruction(instr) THEN 10 ELSE 0)
           + (IF hl >= 5 THEN 5 ELSE 0))

\* `score -= 0.05` for technicalPretext, and the floor left to catch it
calculate_confidence_pretext_penalty(ext, beh, hl, instr) ==
    Max(MIN_CONFIDENCE_THRESHOLD,
        Min(50 + (IF extracted_count(ext) > 0
                  THEN Min(15 * extracted_count(ext), 20) ELSE 0)
               + (IF SignalGet(beh, "urgency") THEN 15 ELSE 0)
               + (IF SignalGet(beh, "fearInduction") THEN 10 ELSE 0)
               + (IF SignalGet(beh, "authorityImpersonation") THEN 10 ELSE 0)
               - (IF SignalGet(beh, "technicalPretext") THEN 5 ELSE 0)
               + (IF SpecificInstruction(instr) THEN 10 ELSE 0)
               + (IF hl >= 5 THEN 5 ELSE 0),
            99))

calculate_confidence(ext, beh, hl, instr) ==
    LET s0 == 50
        n  == extracted_count(ext)
        s1 == IF n > 0 THEN s0 + Min(15 * n, 20) ELSE s0
        s2 == IF SignalGet(beh, "urgency") THEN s1 + 15 ELSE s1
        s3 == IF SignalGet(beh, "fearInduction") THEN s2 + 10 ELSE s2
        s4 == IF SignalGet(beh, "authorityImpersonation") THEN s3 + 10 ELSE s3
        s5 == IF SignalGet(beh, "technicalPretext") THEN s4 + 5 ELSE s4
        s6 == IF SpecificInstruction(instr) THEN s5 + 10 ELSE s5
        score == IF hl >= 5 THEN s6 + 5 ELSE s6
    IN  Max(MIN_CONFIDENCE_THRESHOLD, Min(score, 99))

---------------------------------------------------------------------------
(* services/intelligence_extractor.py: merge_extracted *)

RECURSIVE dedup_loop(_, _, _)
\* for item in (l1 + l2): if item not in seen: result.append(item); seen.add(item)
dedup_loop(items, seen, result) ==
    IF items = << >> THEN result
    ELSE LET item == Head(items)
         IN  IF item \notin seen
             THEN dedup_loop(Tail(items), seen \cup {item}, Append(result, item))
             ELSE dedup_loop(Tail(items), seen, result)

\* {**d1, **d2}: every key of either dict, the value of d2 where it has the key
dict_unpack(d1, d2) ==
    [k \in DOMAIN d1 \cup DOMAIN d2 |-> IF k \in DOMAIN d2 THEN d2[k] ELSE d1[k]]

\* the value merge_extracted stores under one key, from val1 and val2
merge_values(val1, val2, currentFirst, priorWins) ==
    IF val1.kind = "dict" \/ val2.kind = "dict"
    THEN LET d1 == IF val1.kind = "dict" THEN val1.dict ELSE EmptyMap
             d2 == IF val2.kind = "dict" THEN val2.dict ELSE EmptyMap
         IN  DictValue(IF priorWins THEN dict_unpack(d2, d1)
                       ELSE dict_unpack(d1, d2))
    ELSE LET l1 == IF val1.kind = "list" THEN val1.list ELSE << >>
             l2 == IF val2.kind = "list" THEN val2.list ELSE << >>
         IN  ListValue(dedup_loop(IF currentFirst THEN l2 \o l1 ELSE l1 \o l2,
                                  {}, << >>))

\* `l2 + l1`: the current items put before the prior ones
merge_extracted_current_first(hd, cd) ==
    [k \in DOMAIN hd \cup DOMAIN cd |->
        merge_values(DictGet(hd, k), DictGet(cd, k), TRUE, FALSE)]

\* `{**d2, **d1}`: the prior value kept on a sub-key collision
merge_extracted_prior_wins(hd, cd) ==
    [k \in DOMAIN hd \cup DOMAIN cd |->
        merge_values(DictGet(hd, k), DictGet(cd, k), FALSE, TRUE)]

\* `for k in history_data.keys()`: the keys of the current side alone forgotten
merge_extracted_history_keys(hd, cd) ==
    [k \in DOMAIN hd |->
        merge_values(DictGet(hd, k), DictGet(cd, k), FALSE, FALSE)]

merge_extracted(hd, cd) ==
    [k \in DOMAIN hd \cup DOMAIN cd |->
        LET val1 == DictGet(hd, k)
            val2 == DictGet(cd, k)
        IN  IF val1.kind = "dict" \/ val2.kind = "dict"
            THEN LET d1 == IF val1.kind = "dict" THEN val1.dict ELSE EmptyMap
                     d2 == IF val2.kind = "dict" THEN val2.dict ELSE EmptyMap
                 IN  DictValue(dict_unpack(d1, d2))
            ELSE LET l1 == IF val1.kind = "list" THEN val1.list ELSE << >>
                     l2 == IF val2.kind = "list" THEN val2.list ELSE << >>
                 IN  ListValue(dedup_loop(l1 \o l2, {}, << >>))]

---------------------------------------------------------------------------
(* Inputs of the classification functions *)

ItemPool == << "i1", "i2", "i3", "i4", "i5", "i6" >>

\* a list of n distinct strings
ListOfLen(n) == SubSeq(ItemPool, 1, n)

\* how many items each list category and the list under sub-key "k1" of
\* otherPatterns hold: at most MaxItems items in all
LenVectors ==
    { v \in [ListCategories \cup {"k1"} -> 0..MaxItems] :
        SumOver(v, ListCategories \cup {"k1"}) <= MaxItems }

\* otherPatterns: no sub-key, or the sub-key "k1" with a list of n items
OtherPatternsInput(hasKey, n) ==
    IF hasKey THEN [k \in {"k1"} |-> ListOfLen(n)] ELSE EmptyMap

\* the aggregated extraction: all six categories, or none (an empty dict)
ExtractionInputs ==
    { [k \in Categories |->
         IF k = "otherPatterns"
         THEN DictValue(OtherPatternsInput(hasKey \/ v["k1"] > 0, v["k1"]))
         ELSE ListValue(ListOfLen(v[k]))]
      : v \in LenVectors, hasKey \in BOOLEAN }
    \cup { EmptyDict }

BehavioralInputs ==
    [SignalNames \cup {"repetition"} -> BOOLEAN] \cup { EmptyDict }

InstructionLabels ==
    { "ask_for_upi_id", "ask_for_otp", "ask_for_link_click", "ask_for_app_install",
      "ask_for_bank_details", "ask_for_credentials", "ask_for_cvv" }

\* absent, the general label, a label with a context reply table and one without
InstructionInputs ==
    { NoneLabel, "general_instruction", "ask_for_otp", "ask_for_cvv" }

---------------------------------------------------------------------------
(* The classification of one request: decide_phase, then                   *)
(* calculate_confidence, on the same inputs (api/honeypot.py).             *)

Init ==
    /\ pc = "start"
    /\ history_len \in 0..MaxHistoryLen
    /\ extracted \in ExtractionInputs
    /\ behavioral \in BehavioralInputs
    /\ instruction \in InstructionInputs
    /\ phase = "unset"
    /\ confidence = -1
    /\ history_data = EmptyDict
    /\ current_data = EmptyDict
    /\ merged = EmptyDict
    /\ text = << >>
    /\ history = << >>
    /\ scam_detected = FALSE
    /\ hash_order = << >>
    /\ requests = << >>
    /\ random_state = 0
    /\ gemini_active = FALSE

DecidePhase ==
    /\ pc = "start"
    /\ phase' = decide_phase(history_len, extracted, behavioral, instruction)
    /\ pc' = "phase"
    /\ UNCHANGED << history_len, extracted, behavioral, instruction, confidence >>
    /\ UNCHANGED mergeVars
    /\ UNCHANGED textVars
    /\ UNCHANGED serverVars

CalculateConfidence ==
    /\ pc = "phase"
    /\ confidence' =
         calculate_confidence(extracted, behavioral, history_len, instruction)
    /\ pc' = "done"
    /\ UNCHANGED << history_len, extracted, behavioral, instruction, phase >>
    /\ UNCHANGED mergeVars
    /\ UNCHANGED textVars
    /\ UNCHANGED serverVars

Next == DecidePhase \/ CalculateConfidence

Spec == Init /\ [][Next]_vars

---------------------------------------------------------------------------
(* Properties of decide_phase *)

\* what the rules read: a signal is true, a category holds n items
Signal(name) == name \in DOMAIN behavioral /\ behavioral[name] = TRUE

ItemsIn(cat) ==
    IF cat \in DOMAIN extracted /\ extracted[cat].kind = "list"
    THEN Len(extracted[cat].list) ELSE 0

InstructionPresent == instruction # NoneLabel

\* the eight rules, in their order
RuleTable ==
    << [when |-> Signal("repetition") /\ history_len >= 4, then |-> "EXIT"],
       [when |-> Signal("urgency") /\ history_len >= 4,    then |-> "EXIT"],
       [when |-> history_len >= 10,                        then |-> "EXIT"],
       [when |-> InstructionPresent /\ instruction # "general_instruction",
        then |-> "EXTRACTION"],
       [when |-> ItemsIn("upiIds") + ItemsIn("bankAccounts")
                   + ItemsIn("emailAddresses") >= 1,
        then |-> "EXTRACTION"],
       [when |-> Signal("urgency") \/ Signal("fearInduction"),
        then |-> IF history_len >= 2 THEN "EXTRACTION" ELSE "CONFUSION"],
       [when |-> history_len = 0,                          then |-> "TRUST"],
       [when |-> TRUE,                                     then |-> "CONFUSION"] >>

FirstMatch(t) ==
    CHOOSE i \in 1..Len(t) : t[i].when /\ \A j \in 1..(i - 1) : ~t[j].when

FirstMatchingRule == FirstMatch(RuleTable)

\* the phase of the first matching rule
RulePhase == LET t == RuleTable IN t[FirstMatch(t)].then

ExitRuleApplies ==
    \/ Signal("repetition") /\ history_len >= 4
    \/ Signal("urgency") /\ history_len >= 4
    \/ history_len >= 10

NoExtractionTargets ==
    ItemsIn("upiIds") = 0 /\ ItemsIn("bankAccounts") = 0
        /\ ItemsIn("emailAddresses") = 0

\* C1: for every history_len >= 0, aggregated extraction, signals and
\* instruction, decide_phase (in services/scam_detector.py and its copy in
\* main.py) returns the phase of the first matching rule of the eight.
C1_FirstMatchingRuleWins ==
    pc # "start" =>
        /\ phase = RulePhase
        /\ main_decide_phase(history_len, extracted, behavioral, instruction)
             = phase

\* rule 6 decides, below its threshold: urgency at history_len 1, no specific
\* instruction, nothing extracted, gives CONFUSION (and not TRUST or EXTRACTION)
C1_Witness ==
    /\ pc = "done"
    /\ FirstMatchingRule = 6
    /\ history_len = 1
    /\ Signal("urgency")
    /\ phase = "CONFUSION"

\* C2: whenever history_len >= 10 the phase is EXIT, whatever the other
\* inputs are.
C2_HardCapExit ==
    (pc # "start" /\ history_len >= 10) => phase = "EXIT"

\* history_len 10, an all-empty extraction, every signal false, no instruction
C2_Witness ==
    /\ pc = "done"
    /\ history_len = 10
    /\ DOMAIN extracted = Categories
    /\ \A c \in ListCategories : ItemsIn(c) = 0
    /\ DOMAIN behavioral = SignalNames \cup {"repetition"}
    /\ \A n \in DOMAIN behavioral : ~behavioral[n]
    /\ instruction = NoneLabel
    /\ phase = "EXIT"

\* C3: a present instruction other than general_instruction gives EXTRACTION
\* whenever no EXIT rule applies, in particular for every history_len 0..3,
\* also at history_len 0, whatever the extraction and the other signals are.
C3_InstructionGivesExtraction ==
    pc # "start" =>
        /\ (InstructionPresent /\ instruction # "general_instruction"
              /\ ~ExitRuleApplies) => phase = "EXTRACTION"
        /\ (InstructionPresent /\ instruction # "general_instruction"
              /\ history_len \in 0..3) => phase = "EXTRACTION"

\* the first turn with ask_for_otp and nothing else: EXTRACTION, not TRUST
C3_Witness ==
    /\ pc = "done"
    /\ history_len = 0
    /\ instruction = "ask_for_otp"
    /\ NoExtractionTargets
    /\ ~Signal("urgency") /\ ~Signal("fearInduction")
    /\ phase = "EXTRACTION"

\* C4: the phase is TRUST only at history_len 0, and there exactly when the
\* instruction is absent or general_instruction, upiIds, bankAccounts and
\* emailAddresses are empty and neither urgency nor fearInduction is true.
C4_TrustOnlyOnFirstTurn ==
    pc # "start" =>
        /\ history_len >= 1 => phase # "TRUST"
        /\ history_len = 0 =>
             (phase = "TRUST" <=>
                /\ instruction \in {NoneLabel, "general_instruction"}
                /\ NoExtractionTargets
                /\ ~Signal("urgency") /\ ~Signal("fearInduction"))

\* TRUST on the first turn, with signals and items that the rules do not read
C4_Witness ==
    /\ pc = "done"
    /\ history_len = 0
    /\ phase = "TRUST"
    /\ Signal("repetition") /\ Signal("authorityImpersonation")
    /\ ItemsIn("phoneNumbers") >= 1

---------------------------------------------------------------------------
(* Properties of calculate_confidence *)

RECURSIVE FlattenedLen(_, _)
\* the number of items in the value lists of a mapping d, over its sub-keys S
FlattenedLen(d, S) ==
    IF S = {} THEN 0
    ELSE LET k == CHOOSE x \in S : TRUE
         IN  Len(d[k]) + FlattenedLen(d, S \ {k})

\* the items one category holds: a list's length, a mapping's flattened lists
CategoryItemCount(v) ==
    IF v.kind = "list" THEN Len(v.list)
    ELSE IF v.kind = "dict" THEN FlattenedLen(v.dict, DOMAIN v.dict)
    ELSE 0

totalExtractedItemCount ==
    SumOver([k \in DOMAIN extracted |-> CategoryItemCount(extracted[k])],
            DOMAIN extracted)

Clamp(lo, x, hi) == IF x < lo THEN lo ELSE IF x > hi THEN hi ELSE x

\* the additive model over a given item count, in hundredths
AdditiveModel(count) ==
    Clamp(30,
          50 + Min(15 * count, 20)
             + (IF Signal("urgency") THEN 15 ELSE 0)
             + (IF Signal("fearInduction") THEN 10 ELSE 0)
             + (IF Signal("authorityImpersonation") THEN 10 ELSE 0)
             + (IF Signal("technicalPretext") THEN 5 ELSE 0)
             + (IF InstructionPresent /\ instruction # "general_instruction"
                THEN 10 ELSE 0)
             + (IF history_len >= 5 THEN 5 ELSE 0),
          99)

\* C5: for every extraction, signals, history_len and instruction the
\* confidence c satisfies 0.3 <= c <= 0.99.
C5_ConfidenceBounds ==
    pc = "done" => (30 <= confidence /\ confidence <= 99)

\* the ceiling acts: the unclamped score of this input is above 0.99
C5_Witness ==
    /\ pc = "done"
    /\ confidence = 99
    /\ calculate_confidence_no_ceiling(extracted, behavioral, history_len,
                                       instruction) > 99

\* C6: the confidence is the clamp to [0.3, 0.99] of 0.5
\* + min(0.15 x totalExtractedItemCount, 0.2) + 0.15 if urgency + 0.10 if
\* fearInduction + 0.10 if authorityImpersonation + 0.05 if technicalPretext
\* + 0.10 if the instruction is present and not general_instruction + 0.05 if
\* history_len >= 5, with the item count of C7.
C6_AdditiveModel ==
    pc = "done" => confidence = AdditiveModel(totalExtractedItemCount)

\* The additive model holds of the code on every input whose mapping
\* categories have no sub-key: there the two item counts agree.
AdditiveModelWithoutMappings ==
    (pc = "done"
       /\ \A k \in DOMAIN extracted :
            extracted[k].kind = "dict" => DOMAIN extracted[k].dict = {})
    => confidence = AdditiveModel(totalExtractedItemCount)

\* C7: the item count calculate_confidence uses is the sum of the list
\* lengths of every category, a mapping category counting the items of its
\* value lists (flattened), not its keys.
C7_FlattenedItemCount ==
    pc = "done" => extracted_count(extracted) = totalExtractedItemCount

---------------------------------------------------------------------------
(* One call of merge_extracted on two extraction dicts.  Each side holds   *)
(* any of the keys upiIds and otherPatterns; a value is a list (duplicates *)
(* allowed), a dict of sub-key -> list, or None.                           *)

Items == {"a", "b", "c"}

SubKeys == {"k1", "k2"}

RECURSIVE SeqsUpTo(_, _)
\* the sequences over S of length at most n
SeqsUpTo(S, n) ==
    IF n = 0 THEN { << >> }
    ELSE LET shorter == SeqsUpTo(S, n - 1)
         IN  shorter \cup { Append(q, x) : q \in shorter, x \in S }

MapInputs ==
    UNION { [D -> {<< "a" >>, << "b" >>}] : D \in SUBSET SubKeys }

ValueInputs ==
    { ListValue(l) : l \in SeqsUpTo(Items, MaxLen) }
    \cup { DictValue(d) : d \in MapInputs }
    \cup { NoneValue }

OtherPatternsValueInputs ==
    { ListValue(<< >>) } \cup { DictValue(d) : d \in MapInputs }

MergeInputs ==
    UNION { { f \in [D -> ValueInputs] :
                "otherPatterns" \in D =>
                    f["otherPatterns"] \in OtherPatternsValueInputs }
            : D \in SUBSET {"upiIds", "otherPatterns"} }

InitMerge ==
    /\ pc = "start"
    /\ history_data \in MergeInputs
    /\ current_data \in MergeInputs
    /\ merged = EmptyDict
    /\ history_len = 0
    /\ extracted = EmptyDict
    /\ behavioral = EmptyDict
    /\ instruction = NoneLabel
    /\ phase = "unset"
    /\ confidence = -1
    /\ text = << >>
    /\ history = << >>
    /\ scam_detected = FALSE
    /\ hash_order = << >>
    /\ requests = << >>
    /\ random_state = 0
    /\ gemini_active = FALSE

MergeExtracted ==
    /\ pc = "start"
    /\ merged' = merge_extracted(history_data, current_data)
    /\ pc' = "merged"
    /\ UNCHANGED << history_data, current_data >>
    /\ UNCHANGED classifyVars
    /\ UNCHANGED textVars
    /\ UNCHANGED serverVars

NextMerge == MergeExtracted

SpecMerge == InitMerge /\ [][NextMerge]_vars

---------------------------------------------------------------------------
(* Properties of merge_extracted *)

\* the list a side holds under key k: its list, or empty when the key is
\* missing or its value is no list
SideList(side, k) ==
    IF k \in DOMAIN side /\ side[k].kind = "list" THEN side[k].list ELSE << >>

\* the mapping a side holds under key k, or the empty mapping
SideMap(side, k) ==
    IF k \in DOMAIN side /\ side[k].kind = "dict" THEN side[k].dict ELSE EmptyMap

IsMap(side, k) == k \in DOMAIN side /\ side[k].kind = "dict"

Range(q) == { q[i] : i \in 1..Len(q) }

FirstIndex(q, x) == CHOOSE i \in 1..Len(q) : q[i] = x /\ \A j \in 1..(i - 1) : q[j] # x

\* r is q with every later duplicate removed
IsStableDedup(r, q) ==
    /\ Range(r) = Range(q)
    /\ \A i, j \in 1..Len(r) : i # j => r[i] # r[j]
    /\ \A i, j \in 1..Len(r) : i < j => FirstIndex(q, r[i]) < FirstIndex(q, r[j])

\* C9: for a list category the merged list is the prior list followed by
\* the current list with every later duplicate removed: each distinct string
\* once, at its first occurrence, so the prior items keep their order and
\* precede the items found only in the current list.
C9_StableDedupOfConcatenation ==
    pc = "merged" =>
        \A k \in DOMAIN history_data \cup DOMAIN current_data :
            (~IsMap(history_data, k) /\ ~IsMap(current_data, k)) =>
                LET l1 == SideList(history_data, k)
                    l2 == SideList(current_data, k)
                    r  == merged[k].list
                IN  /\ k \in DOMAIN merged
                    /\ merged[k].kind = "list"
                    /\ IsStableDedup(r, l1 \o l2)
                    /\ \A i, j \in 1..Len(r) :
                         (r[i] \in Range(l1) /\ r[j] \notin Range(l1)) => i < j

\* a shared item, a current-only item and a prior order that is not sorted
C9_Witness ==
    /\ pc = "merged"
    /\ SideList(history_data, "upiIds") = << "b", "a" >>
    /\ SideList(current_data, "upiIds") = << "a", "c" >>
    /\ merged["upiIds"] = ListValue(<< "b", "a", "c" >>)

\* C10: for a category whose value is a mapping on either side the result
\* is the union of the two mappings, the current value kept for a sub-key on
\* both sides; a side whose value is no mapping counts as the empty mapping.
C10_MappingUnionCurrentWins ==
    pc = "merged" =>
        \A k \in DOMAIN history_data \cup DOMAIN current_data :
            (IsMap(history_data, k) \/ IsMap(current_data, k)) =>
                LET d1 == SideMap(history_data, k)
                    d2 == SideMap(current_data, k)
                IN  /\ k \in DOMAIN merged
                    /\ merged[k].kind = "dict"
                    /\ DOMAIN merged[k].dict = DOMAIN d1 \cup DOMAIN d2
                    /\ \A sk \in DOMAIN d2 : merged[k].dict[sk] = d2[sk]
                    /\ \A sk \in DOMAIN d1 \ DOMAIN d2 :
                         merged[k].dict[sk] = d1[sk]

\* a collision on k1 with different values, and k2 on the prior side only
C10_Witness ==
    /\ pc = "merged"
    /\ IsMap(history_data, "otherPatterns")
    /\ IsMap(current_data, "otherPatterns")
    /\ SideMap(history_data, "otherPatterns")
         = [sk \in {"k1", "k2"} |-> << "a" >>]
    /\ SideMap(current_data, "otherPatterns") = [sk \in {"k1"} |-> << "b" >>]
    /\ merged["otherPatterns"].dict
         = [sk \in {"k1", "k2"} |-> IF sk = "k1" THEN << "b" >> ELSE << "a" >>]

\* a side has nothing under k: no key, None, or an empty list
Lacks(side, k) ==
    k \notin DOMAIN side \/ side[k].kind = "none" \/ side[k] = ListValue(<< >>)

\* v is what the merge of a lone side holding `side` under k must give
IsValueOfLoneSide(v, side, k) ==
    IF IsMap(side, k) THEN v = DictValue(side[k].dict)
    ELSE v.kind = "list" /\ IsStableDedup(v.list, SideList(side, k))

---------------------------------------------------------------------------
(* Python str: a text is the sequence of its characters; None is NoneText  *)

NoneText == << "None" >>

LowerLetters ==
    << "a", "b", "c", "d", "e", "f", "g", "h", "i", "j", "k", "l", "m",
       "n", "o", "p", "q", "r", "s", "t", "u", "v", "w", "x", "y", "z" >>

UpperLetters ==
    << "A", "B", "C", "D", "E", "F", "G", "H", "I", "J", "K", "L", "M",
       "N", "O", "P", "Q", "R", "S", "T", "U", "V", "W", "X", "Y", "Z" >>

Letters == { LowerLetters[i] : i \in 1..26 } \cup { UpperLetters[i] : i \in 1..26 }

Digits == { "0", "1", "2", "3", "4", "5", "6", "7", "8", "9" }

\* str.isspace, \s
Whitespace == { " ", "\t", "\n" }

\* `not text`: None and the empty string are falsy
IsFalsy(t) == t = NoneText \/ t = << >>

LowerChar(c) ==
    IF \E i \in 1..26 : UpperLetters[i] = c
    THEN LowerLetters[CHOOSE i \in 1..26 : UpperLetters[i] = c]
    ELSE c

\* text.lower()
py_lower(t) == [i \in 1..Len(t) |-> LowerChar(t[i])]

\* text.strip()
py_strip(t) ==
    LET solid == { i \in 1..Len(t) : t[i] \notin Whitespace }
    IN  IF solid = {} THEN << >>
        ELSE SubSeq(t, CHOOSE i \in solid : \A j \in solid : i <= j,
                       CHOOSE i \in solid : \A j \in solid : i >= j)

RECURSIVE split_loop(_, _, _, _)
\* text.split(): the maximal runs of non-whitespace characters
split_loop(t, i, token, tokens) ==
    IF i > Len(t)
    THEN (IF token = << >> THEN tokens ELSE Append(tokens, token))
    ELSE IF t[i] \in Whitespace
         THEN split_loop(t, i + 1, << >>,
                         IF token = << >> THEN tokens ELSE Append(tokens, token))
         ELSE split_loop(t, i + 1, Append(token, t[i]), tokens)

py_split(t) == split_loop(t, 1, << >>, << >>)

\* `needle in hay` for two strings
py_in(needle, hay) ==
    \E i \in 0..(Len(hay) - Len(needle)) :
        \A j \in 1..Len(needle) : hay[i + j] = needle[j]

\* any(k in text for k in keywords)
any_in(keywords, t) == \E i \in 1..Len(keywords) : py_in(keywords[i], t)

\* history[-n:]
py_last(h, n) ==
    IF n = 0 THEN h ELSE SubSeq(h, Max(1, Len(h) - n + 1), Len(h))

---------------------------------------------------------------------------
(* services/scam_detector.py: the keyword tables *)

\* BEHAVIORAL_KEYWORDS: signal name and keywords, in the order of the dict
BEHAVIORAL_KEYWORDS ==
    <<
      << "urgency",
         << << "i", "m", "m", "e", "d", "i", "a", "t", "e", "l", "y" >>,
            << "u", "r", "g", "e", "n", "t" >>,
            << "n", "o", "w" >>,
            << "b", "l", "o", "c", "k", "e", "d" >>,
            << "f", "a", "s", "t" >>,
            << "q", "u", "i", "c", "k" >>,
            << "d", "o", " ", "i", "t", " ", "n", "o", "w" >>,
            << "a", "s", "a", "p" >>,
            << "r", "i", "g", "h", "t", " ", "n", "o", "w" >>,
            << "s", "t", "r", "a", "i", "g", "h", "t", " ", "a", "w", "a", "y" >> >> >>,
      << "authorityImpersonation",
         << << "b", "a", "n", "k" >>,
            << "s", "u", "p", "p", "o", "r", "t" >>,
            << "c", "u", "s", "t", "o", "m", "e", "r", " ", "c", "a", "r", "e" >>,
            << "p", "o", "l", "i", "c", "e" >>,
            << "c", "b", "i" >>,
            << "r", "b", "i" >>,
            << "o", "f", "f", "i", "c", "e", "r" >>,
            << "g", "o", "v", "e", "r", "n", "m", "e", "n", "t" >>,
            << "o", "f", "f", "i", "c", "i", "a", "l" >>,
            << "r", "e", "p", "r", "e", "s", "e", "n", "t", "a", "t", "i", "v", "e" >>,
            << "e", "x", "e", "c", "u", "t", "i", "v", "e" >>,
            << "m", "a", "n", "a", "g", "e", "r" >> >> >>,
      << "fearInduction",
         << << "b", "l", "o", "c", "k", "e", "d" >>,
            << "s", "u", "s", "p", "e", "n", "d", "e", "d" >>,
            << "l", "e", "g", "a", "l" >>,
            << "p", "e", "n", "a", "l", "t", "y" >>,
            << "a", "r", "r", "e", "s", "t" >>,
            << "f", "i", "n", "e" >>,
            << "a", "c", "c", "o", "u", "n", "t", " ", "c", "l", "o", "s", "u", "r", "e" >>,
            << "a", "c", "t", "i", "o", "n" >>,
            << "c", "o", "m", "p", "l", "a", "i", "n", "t" >>,
            << "n", "o", "t", "i", "c", "e" >>,
            << "v", "i", "o", "l", "a", "t", "i", "o", "n" >> >> >>,
      << "socialEngineering",
         << << "h", "e", "l", "p" >>,
            << "s", "u", "p", "p", "o", "r", "t" >>,
            << "g", "u", "i", "d", "e" >>,
            << "p", "l", "e", "a", "s", "e" >>,
            << "n", "e", "e", "d", " ", "y", "o", "u", "r" >>,
            << "c", "a", "n", " ", "y", "o", "u" >>,
            << "d", "o", " ", "m", "e", " ", "a", " ", "f", "a", "v", "o", "r" >>,
            << "t", "r", "u", "s", "t", "e", "d" >>,
            << "s", "e", "c", "u", "r", "e" >> >> >>,
      << "technicalPretext",
         << << "u", "p", "d", "a", "t", "e" >>,
            << "s", "o", "f", "t", "w", "a", "r", "e" >>,
            << "s", "y", "s", "t", "e", "m" >>,
            << "s", "e", "c", "u", "r", "i", "t", "y" >>,
            << "b", "u", "g" >>,
            << "i", "s", "s", "u", "e" >>,
            << "m", "a", "i", "n", "t", "e", "n", "a", "n", "c", "e" >>,
            << "v", "e", "r", "i", "f", "i", "c", "a", "t", "i", "o", "n" >>,
            << "c", "o", "n", "f", "i", "r", "m" >> >> >>
    >>

\* INSTRUCTION_PATTERNS: label and keywords, in the order of the dict
INSTRUCTION_PATTERNS ==
    <<
      << "ask_for_upi_id",
         << << "u", "p", "i", " ", "i", "d" >>,
            << "@" >>,
            << "v", "p", "a" >>,
            << "u", "p", "i", " ", "a", "d", "d", "r", "e", "s", "s" >>,
            << "s", "e", "n", "d", " ", "u", "p", "i" >> >> >>,
      << "ask_for_otp",
         << << "o", "t", "p" >>,
            << "o", "n", "e", " ", "t", "i", "m", "e", " ", "p", "a", "s", "s", "w", "o", "r", "d" >>,
            << "v", "e", "r", "i", "f", "i", "c", "a", "t", "i", "o", "n", " ", "c", "o", "d", "e" >> >> >>,
      << "ask_for_link_click",
         << << "c", "l", "i", "c", "k" >>,
            << "l", "i", "n", "k" >>,
            << "u", "r", "l" >>,
            << "o", "p", "e", "n" >>,
            << "v", "i", "s", "i", "t" >>,
            << "d", "o", "w", "n", "l", "o", "a", "d" >> >> >>,
      << "ask_for_app_install",
         << << "i", "n", "s", "t", "a", "l", "l" >>,
            << "d", "o", "w", "n", "l", "o", "a", "d" >>,
            << "a", "p", "k" >>,
            << "a", "n", "y", "d", "e", "s", "k" >>,
            << "t", "e", "a", "m", "v", "i", "e", "w", "e", "r" >>,
            << "a", "p", "p" >> >> >>,
      << "ask_for_bank_details",
         << << "a", "c", "c", "o", "u", "n", "t", " ", "n", "u", "m", "b", "e", "r" >>,
            << "i", "f", "s", "c" >>,
            << "b", "a", "n", "k", " ", "d", "e", "t", "a", "i", "l", "s" >>,
            << "a", "c", "c", "o", "u", "n", "t", " ", "i", "n", "f", "o" >> >> >>,
      << "ask_for_credentials",
         << << "u", "s", "e", "r", "n", "a", "m", "e" >>,
            << "e", "m", "a", "i", "l" >>,
            << "p", "a", "s", "s", "w", "o", "r", "d" >>,
            << "l", "o", "g", "i", "n", " ", "d", "e", "t", "a", "i", "l", "s" >> >> >>,
      << "ask_for_cvv",
         << << "c", "v", "v" >>,
            << "c", "v", "c" >>,
            << "s", "e", "c", "u", "r", "i", "t", "y", " ", "c", "o", "d", "e" >>,
            << "c", "a", "r", "d", " ", "n", "u", "m", "b", "e", "r" >> >> >>
    >>

SCAM_TERMS ==
    << << "b", "l", "o", "c", "k", "e", "d" >>,
       << "s", "u", "s", "p", "e", "n", "d", "e", "d" >>,
       << "v", "e", "r", "i", "f", "y" >>,
       << "u", "r", "g", "e", "n", "t" >>,
       << "i", "m", "m", "e", "d", "i", "a", "t", "e" >>,
       << "u", "p", "i" >>,
       << "a", "c", "c", "o", "u", "n", "t" >>,
       << "r", "e", "f", "u", "n", "d" >>,
       << "c", "l", "a", "i", "m" >>,
       << "w", "i", "n", "n", "e", "r" >>,
       << "c", "l", "i", "c", "k" >>,
       << "l", "i", "n", "k" >>,
       << "u", "p", "d", "a", "t", "e" >>,
       << "c", "o", "n", "f", "i", "r", "m" >>,
       << "p", "a", "s", "s", "w", "o", "r", "d" >>,
       << "o", "t", "p" >>,
       << "d", "o", " ", "i", "t", " ", "n", "o", "w" >>,
       << "w", "h", "y", " ", "a", "r", "e", " ", "y", "o", "u", " ", "n", "o", "t", " ", "r", "e", "s", "p", "o", "n", "d", "i", "n", "g" >>,
       << "f", "a", "s", "t" >>,
       << "a", "s", "a", "p" >>,
       << "b", "a", "n", "k" >>,
       << "v", "e", "r", "i", "f", "y", " ", "i", "d", "e", "n", "t", "i", "t", "y" >>,
       << "p", "e", "n", "d", "i", "n", "g" >>,
       << "p", "e", "n", "d", "i", "n", "g", " ", "a", "p", "p", "r", "o", "v", "a", "l" >>,
       << "t", "r", "a", "n", "s", "a", "c", "t", "i", "o", "n", " ", "f", "a", "i", "l", "e", "d" >>,
       << "n", "e", "t", "w", "o", "r", "k", " ", "i", "s", "s", "u", "e" >>,
       << "s", "e", "t", "t", "l", "e", "m", "e", "n", "t" >>,
       << "k", "y", "c" >>,
       << "a", "a", "d", "h", "a", "r" >>,
       << "p", "a", "n" >>,
       << "s", "e", "c", "u", "r", "e" >>,
       << "o", "f", "f", "i", "c", "i", "a", "l" >> >>

---------------------------------------------------------------------------
(* services/scam_detector.py: is_scam, detect_repetition,                  *)
(* extract_behavioral_signals, detect_instruction_pattern                  *)

\* the terms looked for in the text as given, without text.lower()
is_scam_case_sensitive(t) ==
    IF IsFalsy(t) \/ Len(py_strip(t)) < 3 THEN FALSE
    ELSE Cardinality({ i \in 1..Len(SCAM_TERMS) : py_in(SCAM_TERMS[i], t) }) >= 1

is_scam(t) ==
    IF IsFalsy(t) \/ Len(py_strip(t)) < 3 THEN FALSE
    ELSE LET text_lower == py_lower(t)
             matches ==
                 Cardinality({ i \in 1..Len(SCAM_TERMS) :
                                 py_in(SCAM_TERMS[i], text_lower) })
         IN  matches >= 1

\* (msg.text or "")
TextOrEmpty(t) == IF IsFalsy(t) THEN << >> ELSE t

\* `repetition_count >= 1`
detect_repetition_once(h, t, threshold) ==
    IF IsFalsy(t) \/ Len(h) = 0 THEN FALSE
    ELSE LET text_lower == py_strip(py_lower(t))
             recent == py_last(h, threshold)
         IN  Cardinality({ i \in 1..Len(recent) :
                 py_in(text_lower, py_lower(TextOrEmpty(recent[i]))) }) >= 1

\* the whole history counted, not history[-threshold:]
detect_repetition_all(h, t, threshold) ==
    IF IsFalsy(t) \/ Len(h) = 0 THEN FALSE
    ELSE LET text_lower == py_strip(py_lower(t))
         IN  Cardinality({ i \in 1..Len(h) :
                 py_in(text_lower, py_lower(TextOrEmpty(h[i]))) }) >= 2

detect_repetition(h, t, threshold) ==
    IF IsFalsy(t) \/ Len(h) = 0 THEN FALSE
    ELSE LET text_lower == py_strip(py_lower(t))
             recent == py_last(h, threshold)
             repetition_count ==
                 Cardinality({ i \in 1..Len(recent) :
                     py_in(text_lower, py_lower(TextOrEmpty(recent[i]))) })
         IN  repetition_count >= 2

\* a keyword counted only when it is a whole token of the text
extract_behavioral_signals_tokens(t) ==
    IF IsFalsy(t) THEN EmptyDict
    ELSE LET tokens == py_split(py_lower(t))
         IN  [signal \in { BEHAVIORAL_KEYWORDS[i][1] :
                             i \in 1..Len(BEHAVIORAL_KEYWORDS) } |->
                \E i \in 1..Len(BEHAVIORAL_KEYWORDS) :
                    /\ BEHAVIORAL_KEYWORDS[i][1] = signal
                    /\ \E j \in 1..Len(BEHAVIORAL_KEYWORDS[i][2]) :
                         \E n \in 1..Len(tokens) :
                             tokens[n] = BEHAVIORAL_KEYWORDS[i][2][j]]

extract_behavioral_signals(t) ==
    IF IsFalsy(t) THEN EmptyDict
    ELSE LET text_lower == py_lower(t)
         IN  [signal \in { BEHAVIORAL_KEYWORDS[i][1] :
                             i \in 1..Len(BEHAVIORAL_KEYWORDS) } |->
                \E i \in 1..Len(BEHAVIORAL_KEYWORDS) :
                    /\ BEHAVIORAL_KEYWORDS[i][1] = signal
                    /\ any_in(BEHAVIORAL_KEYWORDS[i][2], text_lower)]

RECURSIVE instruction_loop(_, _, _, _)
\* for pattern, keywords in patterns.items(): the first pattern that matches
instruction_loop(patterns, i, text_lower, minTokens) ==
    IF i > Len(patterns) THEN "general_instruction"
    ELSE IF any_in(patterns[i][2], text_lower)
            /\ Len(py_split(text_lower)) > minTokens
         THEN patterns[i][1]
         ELSE instruction_loop(patterns, i + 1, text_lower, minTokens)

\* the table with ask_for_app_install put before ask_for_link_click
PatternsAppInstallFirst ==
    [i \in 1..Len(INSTRUCTION_PATTERNS) |->
        IF i = 3 THEN INSTRUCTION_PATTERNS[4]
        ELSE IF i = 4 THEN INSTRUCTION_PATTERNS[3]
        ELSE INSTRUCTION_PATTERNS[i]]

detect_instruction_pattern_app_first(t) ==
    IF IsFalsy(t) THEN NoneLabel
    ELSE instruction_loop(PatternsAppInstallFirst, 1, py_lower(t), 3)

\* the token-count test left out
detect_instruction_pattern_any_length(t) ==
    IF IsFalsy(t) THEN NoneLabel
    ELSE instruction_loop(INSTRUCTION_PATTERNS, 1, py_lower(t), -1)

\* the `not text` guard left out: an empty text falls through the loop
detect_instruction_pattern_unguarded(t) ==
    instruction_loop(INSTRUCTION_PATTERNS, 1, py_lower(TextOrEmpty(t)), 3)

detect_instruction_pattern(t) ==
    IF IsFalsy(t) THEN NoneLabel
    ELSE LET text_lower == py_lower(t)
         IN  instruction_loop(INSTRUCTION_PATTERNS, 1, text_lower, 3)

---------------------------------------------------------------------------
(* services/intelligence_extractor.py: the five patterns, matched on the   *)
(* characters of the text as the re module matches them                    *)

\* \w
WordChars == Letters \cup Digits \cup { "_" }

AlphaNumeric == Letters \cup Digits

WordAt(t, p) == p \in 1..Len(t) /\ t[p] \in WordChars

\* \b before the character at position p
Boundary(t, p) == WordAt(t, p - 1) # WordAt(t, p)

\* the literal lit begins at position i
StartsWith(t, i, lit) ==
    /\ i >= 1
    /\ i + Len(lit) - 1 <= Len(t)
    /\ \A j \in 1..Len(lit) : t[i + j - 1] = lit[j]

SetMin(S) == CHOOSE x \in S : \A y \in S : x <= y

SetMax(S) == CHOOSE x \in S : \A y \in S : x >= y

\* last position of the longest run of characters of class that begins at i
\* (i - 1 when the run is empty)
RunEnd(t, i, class) ==
    LET stops == { j \in i..Len(t) : t[j] \notin class }
    IN  IF stops = {} THEN Max(Len(t), i - 1) ELSE SetMin(stops) - 1

\* last position of the longest run of characters outside class
RunEndOutside(t, i, class) ==
    LET stops == { j \in i..Len(t) : t[j] \in class }
    IN  IF stops = {} THEN Max(Len(t), i - 1) ELSE SetMin(stops) - 1

\* each MatchEnd gives the last position of the match that begins at i, or 0

\* URL_REGEX = https?://[^\s]+
UrlMatchEnd(t, i) ==
    LET http == << "h", "t", "t", "p" >>
        sep == << ":", "/", "/" >>
        body == IF StartsWith(t, i, http \o << "s" >> \o sep) THEN i + 8
                ELSE IF StartsWith(t, i, http \o sep) THEN i + 7
                ELSE 0
        last == RunEndOutside(t, body, Whitespace)
    IN  IF body = 0 \/ last < body THEN 0 ELSE last

\* BANK_REGEX = \b\d{9,18}\b
BankMatchEnd(t, i) ==
    LET run == RunEnd(t, i, Digits) - i + 1
        fits == { k \in 9..18 : k <= run /\ Boundary(t, i + k) }
    IN  IF Boundary(t, i) /\ fits # {} THEN i + SetMax(fits) - 1 ELSE 0

\* PHONE_REGEX = \b(?:\+91|91|0)?[6-9]\d{9}\b
PhonePrefixes == << << "+", "9", "1" >>, << "9", "1" >>, << "0" >>, << >> >>

PhoneRest(t, p) ==
    /\ p + 9 <= Len(t)
    /\ t[p] \in { "6", "7", "8", "9" }
    /\ \A j \in 1..9 : t[p + j] \in Digits
    /\ Boundary(t, p + 10)

PhoneMatchEnd(t, i) ==
    LET works == { n \in 1..Len(PhonePrefixes) :
                     /\ StartsWith(t, i, PhonePrefixes[n])
                     /\ PhoneRest(t, i + Len(PhonePrefixes[n])) }
    IN  IF Boundary(t, i) /\ works # {}
        THEN i + Len(PhonePrefixes[SetMin(works)]) + 9
        ELSE 0

\* UPI_REGEX = \b[a-zA-Z0-9][a-zA-Z0-9.\-_]*@[a-zA-Z]{2,}\b
UpiMatchEnd(t, i) ==
    LET at == RunEnd(t, i + 1, AlphaNumeric \cup { ".", "-", "_" }) + 1
        run == RunEnd(t, at + 1, Letters) - at
        fits == { k \in 2..run : Boundary(t, at + k + 1) }
    IN  IF /\ Boundary(t, i)
           /\ i <= Len(t) /\ t[i] \in AlphaNumeric
           /\ at <= Len(t) /\ t[at] = "@"
           /\ fits # {}
        THEN at + SetMax(fits)
        ELSE 0

\* EMAIL_REGEX = \b[A-Za-z0-9._%+-]+@[A-Za-z0-9.-]+\.[A-Z|a-z]{2,}\b
EmailMatchEnd(t, i) ==
    LET at == RunEnd(t, i, AlphaNumeric \cup { ".", "_", "%", "+", "-" }) + 1
        domainEnd == RunEnd(t, at + 1, AlphaNumeric \cup { ".", "-" })
        \* the dot that ends the domain, with the ends its suffix can have
        suffixEnds(dot) ==
            { e \in (dot + 2)..RunEnd(t, dot + 1, Letters \cup { "|" }) :
                Boundary(t, e + 1) }
        dots == { q \in (at + 2)..domainEnd :
                    t[q] = "." /\ suffixEnds(q) # {} }
    IN  IF /\ Boundary(t, i)
           /\ at > i /\ at <= Len(t) /\ t[at] = "@"
           /\ dots # {}
        THEN SetMax(suffixEnds(SetMax(dots)))
        ELSE 0

RECURSIVE findall_loop(_, _, _, _)
\* re.findall: the matches from left to right, none overlapping another
findall_loop(t, ends, i, found) ==
    IF i > Len(t) THEN found
    ELSE IF ends[i] = 0 THEN findall_loop(t, ends, i + 1, found)
    ELSE findall_loop(t, ends, ends[i] + 1,
                      Append(found, SubSeq(t, i, ends[i])))

findall_upi(t) ==
    findall_loop(t, [i \in 1..Len(t) |-> UpiMatchEnd(t, i)], 1, << >>)

findall_bank(t) ==
    findall_loop(t, [i \in 1..Len(t) |-> BankMatchEnd(t, i)], 1, << >>)

findall_url(t) ==
    findall_loop(t, [i \in 1..Len(t) |-> UrlMatchEnd(t, i)], 1, << >>)

findall_email(t) ==
    findall_loop(t, [i \in 1..Len(t) |-> EmailMatchEnd(t, i)], 1, << >>)

findall_phone(t) ==
    findall_loop(t, [i \in 1..Len(t) |-> PhoneMatchEnd(t, i)], 1, << >>)

---------------------------------------------------------------------------
(* services/intelligence_extractor.py: extract_intelligence *)

\* list(set(found)): each distinct match once, in the order the process's
\* string hashing gives them. order is a permutation: the match first seen
\* j-th is placed by order[j]
set_to_list(found, order) ==
    LET d == dedup_loop(found, {}, << >>)
        key(j) == IF j \in DOMAIN order THEN order[j] ELSE j
        pos(r) == CHOOSE j \in 1..Len(d) :
                      Cardinality({ i \in 1..Len(d) : key(i) < key(j) }) = r - 1
    IN  [r \in 1..Len(d) |-> d[pos(r)]]

\* what the guard on empty text returns
EmptyExtraction ==
    [k \in Categories |->
        IF k = "otherPatterns" THEN DictValue(EmptyMap) ELSE ListValue(<< >>)]

\* list(re.findall(...)) without set()
extract_intelligence_no_set(t, order) ==
    IF IsFalsy(t) \/ Len(py_strip(t)) = 0 THEN EmptyExtraction
    ELSE [k \in Categories |->
            CASE k = "upiIds" -> ListValue(findall_upi(t))
              [] k = "bankAccounts" -> ListValue(findall_bank(t))
              [] k = "phishingLinks" -> ListValue(findall_url(t))
              [] k = "emailAddresses" -> ListValue(findall_email(t))
              [] k = "phoneNumbers" -> ListValue(findall_phone(t))
              [] k = "otherPatterns" -> DictValue(EmptyMap)]

\* the guard on empty text returning {}
extract_intelligence_bare_guard(t, order) ==
    IF IsFalsy(t) \/ Len(py_strip(t)) = 0 THEN EmptyDict
    ELSE extract_intelligence_no_set(t, order)

extract_intelligence(t, order) ==
    IF IsFalsy(t) \/ Len(py_strip(t)) = 0 THEN EmptyExtraction
    ELSE [k \in Categories |->
            CASE k = "upiIds" -> ListValue(set_to_list(findall_upi(t), order))
              [] k = "bankAccounts" ->
                    ListValue(set_to_list(findall_bank(t), order))
              [] k = "phishingLinks" ->
                    ListValue(set_to_list(findall_url(t), order))
              [] k = "emailAddresses" ->
                    ListValue(set_to_list(findall_email(t), order))
              [] k = "phoneNumbers" ->
                    ListValue(set_to_list(findall_phone(t), order))
              [] k = "otherPatterns" -> DictValue(EmptyMap)]

---------------------------------------------------------------------------
(* api/honeypot.py: the extraction accumulated over the history *)

\* the keys of a dict as a list
KeyList(d) ==
    LET n == Cardinality(DOMAIN d)
    IN  CHOOSE q \in [1..n -> DOMAIN d] : \A k \in DOMAIN d : \E i \in 1..n : q[i] = k

\* `historical_extracted[k] = v`: the list of the last message only
extend_replaces(l, v) == IF v.kind = "dict" THEN KeyList(v.dict) ELSE v.list

\* historical_extracted[k].extend(v): the items of a list, the keys of a dict
extend(l, v) == IF v.kind = "dict" THEN l \o KeyList(v.dict) ELSE l \o v.list

RECURSIVE accumulate_loop(_, _, _, _)
\* for msg in history: for k, v in extract_intelligence(msg.text).items(): ...
accumulate_loop(h, i, order, acc) ==
    IF i > Len(h) THEN acc
    ELSE LET old_extracted == extract_intelligence(h[i], order)
         IN  accumulate_loop(h, i + 1, order,
                 [k \in DOMAIN acc \cup DOMAIN old_extracted |->
                     IF k \in DOMAIN old_extracted
                     THEN ListValue(extend(GetOrEmptyList(acc, k).list,
                                           old_extracted[k]))
                     ELSE acc[k]])

\* `for msg in history[-2:]`: only the last two messages are looked at
historical_extracted_recent(h, order) ==
    accumulate_loop(h, Max(1, Len(h) - 1), order, EmptyDict)

historical_extracted(h, order) == accumulate_loop(h, 1, order, EmptyDict)

\* behavioral["repetition"] = value
dict_set(d, k, v) == [x \in DOMAIN d \cup {k} |-> IF x = k THEN v ELSE d[x]]

---------------------------------------------------------------------------
(* Inputs of the text functions *)

MaxWords == 4

MaxTokens == 2

MaxMessages == 4

MaxMatches == 2

\* "otp"
Word_otp == << "o", "t", "p" >>

\* "Download"
Word_Download == << "D", "o", "w", "n", "l", "o", "a", "d" >>

\* "UnBlocked"
Word_UnBlocked == << "U", "n", "B", "l", "o", "c", "k", "e", "d" >>

\* "vpa"
Word_vpa == << "v", "p", "a" >>

\* "a@ok"
Token_upi == << "a", "@", "o", "k" >>

\* "9876543210"
Token_phone == << "9", "8", "7", "6", "5", "4", "3", "2", "1", "0" >>

\* "http://x.in"
Token_url == << "h", "t", "t", "p", ":", "/", "/", "x", ".", "i", "n" >>

\* "a@b.co"
Token_email == << "a", "@", "b", ".", "c", "o" >>

Space == << " " >>

RECURSIVE Join(_)
\* the words with one space between neighbours
Join(ws) ==
    IF ws = << >> THEN << >>
    ELSE IF Len(ws) = 1 THEN ws[1]
    ELSE ws[1] \o Space \o Join(Tail(ws))

KeywordPool ==
    { Word_otp, Word_Download, Word_UnBlocked, Word_vpa }

ExtractPool == { Token_upi, Token_phone, Token_url, Token_email }

KeywordTexts == { Join(ws) : ws \in SeqsUpTo(KeywordPool, MaxWords) }

ExtractionTexts == { Join(ws) : ws \in SeqsUpTo(ExtractPool, MaxTokens) }

\* None, whitespace alone, two characters, padded texts
SpecialTexts ==
    { NoneText,
      << " " >>,
      << " ", "\t", "\n" >>,
      << "o", "t" >>,
      << " ", "o", "t", " " >>,
      Space \o Word_otp \o Space,
      << "\n" >> \o Word_UnBlocked \o Space \o Word_otp \o << "\t" >>,
      Space \o Token_upi \o Space \o Space \o Token_upi }

TextInputs == KeywordTexts \cup ExtractionTexts \cup SpecialTexts

\* the texts tried against a history
RepeatedTexts ==
    { NoneText, << >>, << " " >>, << "O", "T", "P", " " >>,
      Join(<< Token_upi, Token_upi >>),
      Join(<< Word_otp, Token_upi >>) }

MessagePool ==
    { << "O", "t", "p" >> \o Space \o Token_upi,
      Join(<< Token_upi, Token_phone >>) }

HistoryInputs == SeqsUpTo(MessagePool, MaxMessages)

RECURSIVE PermutationsOf(_)
PermutationsOf(n) ==
    IF n = 0 THEN { << >> }
    ELSE { [i \in 1..n |-> IF i < p THEN q[i] ELSE IF i = p THEN n ELSE q[i - 1]]
           : q \in PermutationsOf(n - 1), p \in 1..n }

HashOrders == PermutationsOf(MaxMatches)

---------------------------------------------------------------------------
(* The text functions applied to one text and one history, in the order    *)
(* api/honeypot.py calls them                                              *)

InitDetect ==
    /\ pc = "start"
    /\ \/ text \in TextInputs /\ history = << >>
       \/ text \in RepeatedTexts /\ history \in HistoryInputs
    /\ hash_order \in HashOrders
    /\ requests = << >>
    /\ random_state = 0
    /\ gemini_active = FALSE
    /\ history_len = Len(history)
    /\ scam_detected = FALSE
    /\ history_data = EmptyDict
    /\ current_data = EmptyDict
    /\ merged = EmptyDict
    /\ extracted = EmptyDict
    /\ behavioral = EmptyDict
    /\ instruction = NoneLabel
    /\ phase = "unset"
    /\ confidence = -1

inputVars == << text, history, hash_order, history_len >>

ExtractIntelligence ==
    /\ pc = "start"
    /\ current_data' = extract_intelligence(text, hash_order)
    /\ pc' = "extracted"
    /\ UNCHANGED serverVars
    /\ UNCHANGED << inputVars, history_data, merged, extracted, behavioral,
                    instruction, scam_detected, phase, confidence >>

AccumulateHistory ==
    /\ pc = "extracted"
    /\ history_data' = historical_extracted(history, hash_order)
    /\ pc' = "accumulated"
    /\ UNCHANGED serverVars
    /\ UNCHANGED << inputVars, current_data, merged, extracted, behavioral,
                    instruction, scam_detected, phase, confidence >>

MergeWithHistory ==
    /\ pc = "accumulated"
    /\ merged' = merge_extracted(history_data, current_data)
    /\ extracted' = merged'
    /\ pc' = "aggregated"
    /\ UNCHANGED serverVars
    /\ UNCHANGED << inputVars, current_data, history_data, behavioral,
                    instruction, scam_detected, phase, confidence >>

ExtractBehavioralSignals ==
    /\ pc = "aggregated"
    /\ behavioral' = extract_behavioral_signals(text)
    /\ pc' = "signals"
    /\ UNCHANGED serverVars
    /\ UNCHANGED << inputVars, mergeVars, extracted, instruction,
                    scam_detected, phase, confidence >>

DetectRepetition ==
    /\ pc = "signals"
    /\ behavioral' =
         dict_set(behavioral, "repetition", detect_repetition(history, text, 3))
    /\ pc' = "repetition"
    /\ UNCHANGED serverVars
    /\ UNCHANGED << inputVars, mergeVars, extracted, instruction,
                    scam_detected, phase, confidence >>

DetectInstructionPattern ==
    /\ pc = "repetition"
    /\ instruction' = detect_instruction_pattern(text)
    /\ pc' = "instruction"
    /\ UNCHANGED serverVars
    /\ UNCHANGED << inputVars, mergeVars, extracted, behavioral,
                    scam_detected, phase, confidence >>

IsScam ==
    /\ pc = "instruction"
    /\ scam_detected' = is_scam(text)
    /\ pc' = "scam"
    /\ UNCHANGED serverVars
    /\ UNCHANGED << inputVars, mergeVars, extracted, behavioral, instruction,
                    phase, confidence >>

DecidePhaseOfText ==
    /\ pc = "scam"
    /\ phase' = decide_phase(history_len, extracted, behavioral, instruction)
    /\ pc' = "phase"
    /\ UNCHANGED serverVars
    /\ UNCHANGED << inputVars, mergeVars, extracted, behavioral, instruction,
                    scam_detected, confidence >>

NextDetect ==
    \/ ExtractIntelligence
    \/ AccumulateHistory
    \/ MergeWithHistory
    \/ ExtractBehavioralSignals
    \/ DetectRepetition
    \/ DetectInstructionPattern
    \/ IsScam
    \/ DecidePhaseOfText
    \/ CalculateConfidence

SpecDetect == InitDetect /\ [][NextDetect]_vars

---------------------------------------------------------------------------
(* Claims about extract_intelligence *)

NoDuplicates(l) == \A i, j \in 1..Len(l) : i # j => l[i] # l[j]

Occurrences(l, x) == Cardinality({ i \in 1..Len(l) : l[i] = x })

\* what re.findall gives for the pattern of a list category
MatchesOf(k, t) ==
    CASE k = "upiIds" -> findall_upi(t)
      [] k = "bankAccounts" -> findall_bank(t)
      [] k = "phishingLinks" -> findall_url(t)
      [] k = "emailAddresses" -> findall_email(t)
      [] k = "phoneNumbers" -> findall_phone(t)

Extracted == pc # "start"

\* C12: no list category holds the same string twice. In the result of
\* extract_intelligence every match of the text is listed exactly once,
\* however often it occurs; the result of merge_extracted has no duplicate
\* either, also when the accumulated history lists hold one.
C12_NoDuplicateStrings ==
    /\ pc = "extracted" =>
         \A k \in ListCategories :
            /\ k \in DOMAIN current_data
            /\ NoDuplicates(current_data[k].list)
            /\ ~IsFalsy(text) =>
                 LET found == MatchesOf(k, text)
                 IN  \A i \in 1..Len(found) :
                        Occurrences(current_data[k].list, found[i]) = 1
    /\ pc = "aggregated" =>
         \A k \in ListCategories \cap DOMAIN merged :
            NoDuplicates(merged[k].list)

\* the text repeats one match, the history lists hold it twice as well
C12_Witness ==
    /\ pc = "aggregated"
    /\ text = Join(<< Token_upi, Token_upi >>)
    /\ Len(findall_upi(text)) = 2
    /\ current_data["upiIds"].list = << Token_upi >>
    /\ "upiIds" \in DOMAIN history_data
    /\ ~NoDuplicates(history_data["upiIds"].list)
    /\ merged["upiIds"].list = << Token_upi >>

IsBlank(t) == t # NoneText /\ \A i \in 1..Len(t) : t[i] \in Whitespace

\* C13: on the empty string and on whitespace alone extract_intelligence
\* returns the five list categories empty and otherPatterns an empty
\* mapping; otherPatterns is the empty mapping for every text.
C13_BlankTextGivesEmptyResult ==
    pc = "extracted" =>
        /\ "otherPatterns" \in DOMAIN current_data
        /\ current_data["otherPatterns"].kind = "dict"
        /\ DOMAIN current_data["otherPatterns"].dict = {}
        /\ IsBlank(text) =>
             /\ DOMAIN current_data = Categories
             /\ \A k \in ListCategories :
                  /\ current_data[k].kind = "list"
                  /\ current_data[k].list = << >>

C13_Witness ==
    /\ pc = "extracted"
    /\ text = << " ", "\t", "\n" >>
    /\ DOMAIN current_data = Categories
    /\ \A k \in ListCategories : current_data[k] = ListValue(<< >>)
    /\ current_data["otherPatterns"] = DictValue(EmptyMap)

---------------------------------------------------------------------------
(* Claims about detect_repetition *)

RepetitionDone == pc \notin { "start", "extracted", "accumulated",
                              "aggregated", "signals" }

\* the positions of the last three messages of the history
LastThree == { i \in 1..Len(history) : i > Len(history) - 3 }

\* how many of the last three messages contain needle, case-folded
Containing(needle) ==
    Cardinality({ i \in LastThree : py_in(needle, py_lower(history[i])) })

RepetitionReturned == pc = "repetition"

\* C14 as stated: true iff at least 2 of the last 3 messages contain the
\* case-folded current text. The code differs on the empty text (false,
\* though every message contains it) and on a padded text (the needle is
\* the trimmed text).
C14_CaseFoldedTextInTwoOfLastThree ==
    (RepetitionReturned /\ text # NoneText) =>
        (behavioral["repetition"] <=> Containing(py_lower(text)) >= 2)

\* C14, amended: detect_repetition is false for the empty text; for any
\* other text it is true iff at least 2 of the last 3 history messages
\* contain the trimmed, case-folded current text as a substring of their own
\* case-folded text. One such message is not enough and a message older
\* than the last 3 is not counted.
C14_TrimmedTextInTwoOfLastThree ==
    RepetitionReturned =>
        (behavioral["repetition"] <=>
            /\ ~IsFalsy(text)
            /\ Containing(py_strip(py_lower(text))) >= 2)

\* a padded upper-case text, found in two of the last three messages
C14_Witness ==
    /\ pc = "repetition"
    /\ text = << "O", "T", "P", " " >>
    /\ history = << Join(<< Token_upi, Token_phone >>),
                    Join(<< Token_upi, Token_phone >>),
                    << "O", "t", "p" >> \o Space \o Token_upi,
                    << "O", "t", "p" >> \o Space \o Token_upi >>
    /\ behavioral["repetition"] = TRUE

---------------------------------------------------------------------------
(* Claims about detect_instruction_pattern *)

InstructionDone == pc \in { "instruction", "scam", "phase", "done" }

\* the declared order of the instruction categories
DeclaredOrder ==
    << "ask_for_upi_id", "ask_for_otp", "ask_for_link_click",
       "ask_for_app_install", "ask_for_bank_details", "ask_for_credentials",
       "ask_for_cvv" >>

\* the case-folded text contains a keyword of the category
KeywordIn(label, lowered) ==
    \E i \in 1..Len(INSTRUCTION_PATTERNS) :
        /\ INSTRUCTION_PATTERNS[i][1] = label
        /\ \E j \in 1..Len(INSTRUCTION_PATTERNS[i][2]) :
             py_in(INSTRUCTION_PATTERNS[i][2][j], lowered)

HasKeywordOf(label) == KeywordIn(label, py_lower(text))

TokenCount == Len(py_split(text))

HasInstructionKeyword ==
    LET lowered == py_lower(text)
    IN  \E n \in 1..Len(DeclaredOrder) : KeywordIn(DeclaredOrder[n], lowered)

InstructionReturned == pc = "instruction"

\* C15: a text of more than 3 tokens that contains a keyword of some
\* instruction category gets the label of the first such category in the
\* declared order.
C15_FirstCategoryInDeclaredOrder ==
    (InstructionReturned /\ ~IsFalsy(text) /\ TokenCount > 3
        /\ HasInstructionKeyword) =>
        LET lowered == py_lower(text)
        IN  \E n \in 1..Len(DeclaredOrder) :
                /\ instruction = DeclaredOrder[n]
                /\ KeywordIn(DeclaredOrder[n], lowered)
                /\ \A m \in 1..(n - 1) : ~KeywordIn(DeclaredOrder[m], lowered)

\* "download" is a keyword of ask_for_link_click and of ask_for_app_install
C15_Witness ==
    /\ pc = "instruction"
    /\ text = Join(<< Word_UnBlocked, Word_Download, Word_UnBlocked, Word_Download >>)
    /\ HasKeywordOf("ask_for_link_click")
    /\ HasKeywordOf("ask_for_app_install")
    /\ instruction = "ask_for_link_click"

\* C16: none for the empty text; general_instruction for every non-empty
\* text of 3 or fewer tokens, keyword or not, and for every non-empty text
\* without an instruction keyword.
C16_ShortOrPlainTextIsGeneral ==
    InstructionReturned =>
        /\ text = << >> => instruction = NoneLabel
        /\ (~IsFalsy(text) /\ (TokenCount <= 3 \/ ~HasInstructionKeyword)) =>
               instruction = "general_instruction"

\* "otp" alone holds a keyword of ask_for_otp and is one token
C16_Witness ==
    /\ pc = "instruction"
    /\ text = Word_otp
    /\ HasKeywordOf("ask_for_otp")
    /\ instruction = "general_instruction"

---------------------------------------------------------------------------
(* Claims about extract_behavioral_signals and is_scam *)

\* the case-folded text contains a keyword of the signal category
HasSignalKeyword(signal, lowered) ==
    \E i \in 1..Len(BEHAVIORAL_KEYWORDS) :
        /\ BEHAVIORAL_KEYWORDS[i][1] = signal
        /\ \E j \in 1..Len(BEHAVIORAL_KEYWORDS[i][2]) :
             py_in(BEHAVIORAL_KEYWORDS[i][2][j], lowered)

\* C17: for a non-empty text extract_behavioral_signals returns exactly the
\* five keys, each true iff the case-folded text contains a keyword of the
\* category as a substring.
C17_FiveSignalsBySubstring ==
    (pc = "signals" /\ ~IsFalsy(text)) =>
        /\ DOMAIN behavioral =
             { "urgency", "authorityImpersonation", "fearInduction",
               "socialEngineering", "technicalPretext" }
        /\ LET lowered == py_lower(text)
           IN  \A signal \in DOMAIN behavioral :
                  behavioral[signal] <=> HasSignalKeyword(signal, lowered)

\* "blocked" inside "UnBlocked": a keyword of urgency and of fearInduction
C17_Witness ==
    /\ pc = "signals"
    /\ text = Join(<< Word_otp, Word_UnBlocked >>)
    /\ behavioral["urgency"] = TRUE
    /\ behavioral["fearInduction"] = TRUE
    /\ behavioral["authorityImpersonation"] = FALSE
    /\ behavioral["socialEngineering"] = FALSE
    /\ behavioral["technicalPretext"] = FALSE

ScamDone == pc \in { "scam", "phase", "done" }

\* C18: is_scam is true iff the trimmed text has at least 3 characters and
\* the case-folded text contains a term of SCAM_TERMS as a substring.
C18_ScamIffTermInText ==
    (pc = "scam" /\ text # NoneText) =>
        LET lowered == py_lower(text)
        IN  scam_detected <=>
                /\ Len(py_strip(text)) >= 3
                /\ \E i \in 1..Len(SCAM_TERMS) : py_in(SCAM_TERMS[i], lowered)

\* "OTP " has three characters when trimmed and holds the term "otp"
C18_Witness ==
    /\ pc = "scam"
    /\ text = << "O", "T", "P", " " >>
    /\ scam_detected = TRUE

---------------------------------------------------------------------------
(* Claim about the results for an empty or absent text *)

\* C20: no function fails on a string or on None. For the empty string and
\* for None the results are the defaults: the all-empty extraction, the
\* empty signal mapping, no instruction, no repetition, no scam. The phase
\* is a Phase and the confidence lies in [0.3, 0.99] for every text.
C20_DefaultsForEmptyText ==
    /\ IsFalsy(text) =>
         /\ Extracted =>
              /\ DOMAIN current_data = Categories
              /\ \A k \in ListCategories : current_data[k] = ListValue(<< >>)
              /\ current_data["otherPatterns"] = DictValue(EmptyMap)
         /\ pc = "signals" => DOMAIN behavioral = {}
         /\ RepetitionDone =>
              /\ DOMAIN behavioral = { "repetition" }
              /\ behavioral["repetition"] = FALSE
         /\ InstructionDone => instruction = NoneLabel
         /\ ScamDone => scam_detected = FALSE
    /\ ScamDone => scam_detected \in BOOLEAN
    /\ pc \in { "phase", "done" } => phase \in Phase
    /\ pc = "done" => confidence \in 30..99

\* None as the text and no history: the defaults give TRUST and 0.5
C20_Witness ==
    /\ pc = "done"
    /\ text = NoneText
    /\ history = << >>
    /\ current_data["upiIds"] = ListValue(<< >>)
    /\ DOMAIN behavioral = { "repetition" }
    /\ instruction = NoneLabel
    /\ scam_detected = FALSE
    /\ phase = "TRUST"
    /\ confidence = 50

---------------------------------------------------------------------------
(* api/honeypot.py: agentic_honeypot serving several requests. Each request *)
(* has its own local variables; the requests share gemini_service and the  *)
(* generator of the random module. A step is one statement of the handler. *)

NumRequests == 2

scalarVars == << pc, classifyVars, mergeVars, textVars >>

\* the reply tables of config.py; a sentence is written as a string and
\* read as a str (a sequence of characters) through Chars
Chars(s) == [i \in 1..Len(s) |-> SubSeq(s, i, i)]

SAFE_FALLBACKS ==
    [ TRUST |->
        << "Sir I got this message now, please guide me what to do.",
           "Yes sir, I am listening, please tell me next step.",
           "Sir I understand, what should I do?" >>,
      CONFUSION |->
        << "Sir this word you mentioned, where exactly should I type it?",
           "Sir I am confused, can you explain in simple words?",
           "Sir which application should I open for this?" >>,
      EXTRACTION |->
        << "Sir can you share an example so I do not make mistake?",
           "Sir please guide slowly, I am new to this.",
           "Sir should I share now or later?" >>,
      EXIT |->
        << "Sir network is little slow, I will try again shortly, thank you.",
           "Sir my battery is low, will contact you later.",
           "Sir someone is calling, will get back to you soon." >> ]

TRUST_PHASE_REPLIES ==
    << "Yes sir, I am ready.",
       "Sir I trust you completely, please continue.",
       "I will help you sir, tell me what to do.",
       "Okay sir, I am listening carefully.",
       "Yes sir, I want to fix this issue." >>

CONFUSION_REPLIES ==
    << "Sir I am getting confused, is this inside app or message?",
       "Sir you said fast, but I don't see where to do this.",
       "Sir please guide slowly, I don't want to make mistake.",
       "Which application sir? PhonePe or Google Pay?",
       "Can you show me step by step sir?" >>

EXTRACTION_REPLIES ==
    << "Sir can you tell exact steps one by one?",
       "Sir should I open PhonePe first or messages?",
       "Sir is this UPI typed or scanned?",
       "Will it be secure sir?",
       "Should I do this right now?" >>

CONTEXT_EXTRACTION ==
    [ ask_for_upi_id |->
        << "Sir should I enter my UPI or your UPI ID?",
           "Should I send you my UPI sir?",
           "Where do I find my UPI ID?" >>,
      ask_for_otp |->
        << "Sir I will not share OTP with anyone, is it safe?",
           "Should I really send you the code?",
           "Will bank officers ask me later about this?" >>,
      ask_for_link_click |->
        << "Sir is this link safe? My phone gives warning.",
           "Can you send me official link from bank website?",
           "What will happen after I click?" >>,
      ask_for_bank_details |->
        << "Why do you need my account details sir?",
           "Should I tell you my account number?",
           "Is bank asking for this?" >> ]

HUMAN_VARIANTS ==
    << "where should I type this",
       "where do I put this",
       "how to enter this",
       "what do you mean by that",
       "can you repeat that",
       "my phone is slow" >>

DELAY_REPLIES ==
    << "Sir I am outside now, will do in some time please wait",
       "Network is very slow sir, loading...",
       "One minute sir, finding my glasses",
       "Sir my phone battery is very low",
       "Someone just came home, will contact you soon" >>

NoReply == << "unset", "" >>

\* the request bodies: message text and conversationHistory
RequestInputs ==
    << [text |-> << " " >>, history |-> << >>],
       [text |-> << " ", "O", "T", "P", " " >>, history |-> << >>],
       [text |-> Token_upi \o << " ", "b", " ", "c", " ", "d" >>,
        history |-> << Token_upi, Token_upi >>],
       [text |-> << "N", "O", "W" >>,
        history |-> << Word_otp, Word_otp, Word_otp, Word_otp >>] >>

\* the local variables of a request that has not begun
NewRequest(body) ==
    [pc |-> "validate", body |-> body,
     last_message |-> << >>, history |-> << >>, history_len |-> 0,
     current_extracted |-> EmptyDict, historical_extracted |-> EmptyDict,
     extracted_dict |-> EmptyDict, behavioral |-> EmptyDict,
     instruction |-> NoneLabel, scam_detected |-> FALSE, phase |-> "unset",
     gemini |-> "unset", agent_reply |-> NoReply, agent_reply_text |-> << >>,
     drawn_at |-> -1, confidence |-> -1, status |-> 0, result |-> "unset"]

InitConcurrent ==
    /\ \E choice \in [1..NumRequests -> 1..Len(RequestInputs)] :
          /\ \A r, q \in 1..NumRequests : r < q => choice[r] < choice[q]
          /\ requests = [r \in 1..NumRequests |->
                            NewRequest(RequestInputs[choice[r]])]
    /\ random_state = 0
    /\ gemini_active \in BOOLEAN
    /\ hash_order \in HashOrders
    /\ pc = "start"
    /\ history_len = 0
    /\ extracted = EmptyDict
    /\ behavioral = EmptyDict
    /\ instruction = NoneLabel
    /\ phase = "unset"
    /\ confidence = -1
    /\ history_data = EmptyDict
    /\ current_data = EmptyDict
    /\ merged = EmptyDict
    /\ text = << >>
    /\ history = << >>
    /\ scam_detected = FALSE

\* a phase kept at module level: once a request has returned EXIT, the
\* requests served after it are in EXIT too
locals_sticky_exit(reqs, r) ==
    [reqs[r] EXCEPT !.phase = IF r > 1 /\ reqs[r - 1].phase = "EXIT" /\ @ # "unset"
                              THEN "EXIT" ELSE @]

\* the shared history a module-level variable would give: that of request 1
locals_module_history(reqs, r) == [reqs[r] EXCEPT !.history = reqs[1].history]

\* the local variables the handler reads while it serves request r
locals(reqs, r) == reqs[r]

\* one statement of request r: it writes its own local variables only
Store(r, f) ==
    /\ requests' = [requests EXCEPT ![r] = f]
    /\ UNCHANGED << random_state, gemini_active >>
    /\ UNCHANGED scalarVars

\* `except Exception` alone: the HTTPException takes the fallback too
except_clause_exception_only(exc) == "fallback"

\* the except clauses of the handler, in their order: an HTTPException is
\* raised again, any other exception gives the fallback response
except_clause(exc) == IF exc = "HTTPException" THEN "raise" ELSE "fallback"

\* the fallback response of `except Exception`: status "error", fixed
\* classification, a reply drawn from CONFUSION_REPLIES
ErrorFallback(r, f) ==
    \E i \in 1..Len(CONFUSION_REPLIES) :
        /\ requests' = [requests EXCEPT ![r] =
              [f EXCEPT !.pc = "responded", !.status = 200, !.result = "error",
                        !.scam_detected = TRUE, !.phase = "CONFUSION",
                        !.confidence = 50, !.behavioral = EmptyDict,
                        !.instruction = "general_instruction",
                        !.extracted_dict = EmptyExtraction,
                        !.agent_reply = << "CONFUSION_REPLIES", "" >>,
                        !.agent_reply_text = Chars(CONFUSION_REPLIES[i]),
                        !.drawn_at = random_state]]
        /\ random_state' = random_state + 1
        /\ UNCHANGED gemini_active
        /\ UNCHANGED scalarVars

\* raise HTTPException(status_code=400) inside the try
Reject(r, f) ==
    IF except_clause("HTTPException") = "raise"
    THEN Store(r, [f EXCEPT !.pc = "rejected", !.status = 400])
    ELSE ErrorFallback(r, f)

RequestValidate(r) ==
    LET f == locals(requests, r)
        last_message == py_strip(f.body.text)
    IN  /\ f.pc = "validate"
        /\ IF last_message = << >>
           THEN Reject(r, f)
           ELSE Store(r, [f EXCEPT !.pc = "extract",
                                   !.last_message = last_message,
                                   !.history = f.body.history,
                                   !.history_len = Len(f.body.history)])

RequestExtract(r) ==
    LET f == locals(requests, r)
    IN  /\ f.pc = "extract"
        /\ Store(r, [f EXCEPT !.pc = "accumulate",
                       !.current_extracted =
                           extract_intelligence(f.last_message, hash_order)])

RequestAccumulate(r) ==
    LET f == locals(requests, r)
    IN  /\ f.pc = "accumulate"
        /\ Store(r, [f EXCEPT !.pc = "merge",
                       !.historical_extracted =
                           historical_extracted(f.history, hash_order)])

RequestMerge(r) ==
    LET f == locals(requests, r)
    IN  /\ f.pc = "merge"
        /\ Store(r, [f EXCEPT !.pc = "signals",
                       !.extracted_dict =
                           merge_extracted(f.historical_extracted,
                                           f.current_extracted)])

RequestSignals(r) ==
    LET f == locals(requests, r)
    IN  /\ f.pc = "signals"
        /\ Store(r, [f EXCEPT !.pc = "repetition",
                       !.behavioral = extract_behavioral_signals(f.last_message)])

RequestRepetition(r) ==
    LET f == locals(requests, r)
    IN  /\ f.pc = "repetition"
        /\ Store(r, [f EXCEPT !.pc = "instruction",
                       !.behavioral =
                           dict_set(f.behavioral, "repetition",
                               detect_repetition(f.history, f.last_message, 3))])

RequestInstruction(r) ==
    LET f == locals(requests, r)
    IN  /\ f.pc = "instruction"
        /\ Store(r, [f EXCEPT !.pc = "scam",
                       !.instruction = detect_instruction_pattern(f.last_message)])

RequestScam(r) ==
    LET f == locals(requests, r)
    IN  /\ f.pc = "scam"
        /\ Store(r, [f EXCEPT !.pc = "phase",
                       !.scam_detected = is_scam(f.last_message)])

RequestPhase(r) ==
    LET f == locals(requests, r)
    IN  /\ f.pc = "phase"
        /\ Store(r, [f EXCEPT !.pc = "reply",
                       !.phase = decide_phase(f.history_len, f.extracted_dict,
                                              f.behavioral, f.instruction)])

\* the table the fallback reply is chosen from
fallback_table(phase_value, instr) ==
    IF phase_value = "EXTRACTION" /\ instr \in DOMAIN CONTEXT_EXTRACTION
    THEN << "CONTEXT_EXTRACTION", instr >>
    ELSE IF phase_value = "CONFUSION" THEN << "CONFUSION_REPLIES", "" >>
    ELSE IF phase_value = "EXTRACTION" THEN << "EXTRACTION_REPLIES", "" >>
    ELSE IF phase_value = "TRUST" THEN << "TRUST_PHASE_REPLIES", "" >>
    ELSE << "SAFE_FALLBACKS", phase_value >>

\* the reply: from Gemini when it is active and answers, else from the
\* tables by random.choice. The fallback draws one choice and two
\* random() values from the shared generator, and one more choice for each
\* of the two occasional replies. agent_reply records the table, drawn_at
\* the position of the generator the request drew from.
RequestReply(r) ==
    LET f == locals(requests, r)
    IN  /\ f.pc = "reply"
        /\ \E gemini \in (IF gemini_active THEN { "text", "short", "none" }
                                          ELSE { "none" }),
              entropy \in BOOLEAN, delay \in BOOLEAN :
              LET human == entropy /\ f.history_len >= 2
                  delayed == delay /\ f.phase = "EXIT"
                  draws == 3 + (IF human THEN 1 ELSE 0)
                             + (IF delayed THEN 1 ELSE 0)
              IN  IF gemini = "none"
                  THEN /\ requests' = [requests EXCEPT ![r] =
                            [f EXCEPT !.pc = "respond",
                               !.agent_reply =
                                   IF delayed THEN << "DELAY_REPLIES", "" >>
                                   ELSE IF human THEN << "HUMAN_VARIANTS", "" >>
                                   ELSE fallback_table(f.phase, f.instruction),
                               !.drawn_at = random_state]]
                       /\ random_state' = random_state + draws
                       /\ UNCHANGED gemini_active
                       /\ UNCHANGED scalarVars
                  ELSE Store(r, [f EXCEPT !.pc = "respond",
                                    !.agent_reply =
                                        IF gemini = "text"
                                        THEN << "gemini", "" >>
                                        ELSE << "safety check", "" >>])

RequestRespond(r) ==
    LET f == locals(requests, r)
    IN  /\ f.pc = "respond"
        /\ Store(r, [f EXCEPT !.pc = "responded",
                       !.confidence =
                           calculate_confidence(f.extracted_dict, f.behavioral,
                                                f.history_len, f.instruction),
                       !.status = 200, !.result = "success"])

NextConcurrent ==
    \E r \in 1..NumRequests :
        \/ RequestValidate(r)
        \/ RequestExtract(r)
        \/ RequestAccumulate(r)
        \/ RequestMerge(r)
        \/ RequestSignals(r)
        \/ RequestRepetition(r)
        \/ RequestInstruction(r)
        \/ RequestScam(r)
        \/ RequestPhase(r)
        \/ RequestReply(r)
        \/ RequestRespond(r)

SpecConcurrent == InitConcurrent /\ [][NextConcurrent]_vars

---------------------------------------------------------------------------
(* Claim about concurrent requests *)

\* what the handler answers to a request body when it serves it alone
AloneResponse(body) ==
    LET last_message == py_strip(body.text)
        extracted_dict ==
            merge_extracted(historical_extracted(body.history, hash_order),
                            extract_intelligence(last_message, hash_order))
        signals ==
            dict_set(extract_behavioral_signals(last_message), "repetition",
                     detect_repetition(body.history, last_message, 3))
        instr == detect_instruction_pattern(last_message)
    IN  IF last_message = << >>
        THEN [status |-> 400]
        ELSE [status |-> 200,
              scamDetected |-> is_scam(last_message),
              phase |-> decide_phase(Len(body.history), extracted_dict,
                                     signals, instr),
              confidence |-> calculate_confidence(extracted_dict, signals,
                                                  Len(body.history), instr),
              behavioralSignals |-> signals,
              instructionPattern |-> instr,
              extractedIntelligence |-> extracted_dict]

\* the classification fields of the response a request has returned
ResponseOf(f) ==
    IF f.status = 400
    THEN [status |-> 400]
    ELSE [status |-> f.status,
          scamDetected |-> f.scam_detected,
          phase |-> f.phase,
          confidence |-> f.confidence,
          behavioralSignals |-> f.behavioral,
          instructionPattern |-> f.instruction,
          extractedIntelligence |-> f.extracted_dict]

Returned(r) == requests[r].pc \in { "responded", "rejected" }

SameAsAlone ==
    \A r \in DOMAIN requests :
        Returned(r) => ResponseOf(requests[r]) = AloneResponse(requests[r].body)

\* in one step: a request that returns gives the response it gives alone,
\* and a response once returned is not touched by any later step
ReturnsSameAsAlone ==
    \A r \in DOMAIN requests :
        /\ (~Returned(r) /\ requests'[r].pc \in { "responded", "rejected" }) =>
              ResponseOf(requests'[r]) = AloneResponse(requests'[r].body)
        /\ Returned(r) => requests'[r] = requests[r]

\* a request that drew its reply from the tables found the generator where
\* it finds it when it runs alone
GeneratorUntouchedByOthers ==
    \A r \in DOMAIN requests : requests[r].drawn_at \in { -1, 0 }

\* C19 as stated: every request returns the classification it returns when
\* run alone, and no request reads or writes state another request writes.
\* The second part fails: random.choice of the fallback reply reads and
\* advances the one generator of the random module.
C19_NoSharedWrittenState == GeneratorUntouchedByOthers /\ SameAsAlone

\* C19, amended: whatever the interleaving of the steps, every request
\* returns the scamDetected, phase, confidence, behavioralSignals,
\* instructionPattern and extractedIntelligence (or the rejection) it returns
\* when run alone.
C19_ClassificationSameAsAlone == [][ReturnsSameAsAlone]_vars

\* both requests have returned, the second after drawing its reply from the
\* generator the first had advanced
C19_Witness ==
    /\ \A r \in DOMAIN requests : requests[r].pc = "responded"
    /\ DOMAIN requests # {}
    /\ requests[1].drawn_at = 0
    /\ requests[2].drawn_at > 0
    /\ requests[1].phase # requests[2].phase
    /\ SameAsAlone

---------------------------------------------------------------------------
(* Properties of decide_phase and calculate_confidence, continued *)

\* C24: decide_phase returns EXIT only when historyLen >= 4; with
\* historyLen <= 3 the phase is TRUST, CONFUSION or EXTRACTION, also when
\* repetition and urgency are both true.
C24_ExitNeedsFourMessages ==
    pc # "start" =>
        /\ (phase = "EXIT" => history_len >= 4)
        /\ (history_len <= 3 => phase \in {"TRUST", "CONFUSION", "EXTRACTION"})

\* repetition and urgency both true on a history of three messages
C24_Witness ==
    /\ pc = "phase"
    /\ history_len = 3
    /\ Signal("repetition")
    /\ Signal("urgency")
    /\ phase = "EXTRACTION"

\* the inputs with one more true signal, one more item in a category, a
\* history one message longer (every length has its state) and the longest
WithSignal(beh, name) == dict_set(beh, name, TRUE)

WithItem(ext, k) ==
    IF k \in DOMAIN ext
    THEN dict_set(ext, k, ListValue(Append(ext[k].list, "added")))
    ELSE dict_set(ext, k, ListValue(<< "added" >>))

NeverLoweredBySignal ==
    \A name \in SignalNames \cup {"repetition"} :
        calculate_confidence(extracted, WithSignal(behavioral, name),
                             history_len, instruction) >= confidence

NeverLoweredByItem ==
    \A k \in ListCategories :
        calculate_confidence(WithItem(extracted, k), behavioral,
                             history_len, instruction) >= confidence

NeverLoweredByHistory ==
    \A hl \in {history_len + 1, MaxHistoryLen + 1} :
        calculate_confidence(extracted, behavioral, hl, instruction)
            >= confidence

\* C25: calculate_confidence never returns less than 0.5, the lower clamp
\* (0.3) is never the value returned, and one more true signal, one more
\* extracted item or a longer history never lowers the confidence.
C25_ConfidenceAtLeastHalfAndMonotone ==
    pc = "done" =>
        /\ confidence >= 50
        /\ confidence # MIN_CONFIDENCE_THRESHOLD
        /\ NeverLoweredBySignal
        /\ NeverLoweredByItem
        /\ NeverLoweredByHistory

\* the floor 0.5 is reached, and a signal raises it
C25_Witness ==
    /\ pc = "done"
    /\ confidence = 50
    /\ ~Signal("technicalPretext")
    /\ calculate_confidence(extracted, WithSignal(behavioral, "technicalPretext"),
                            history_len, instruction) = 55

---------------------------------------------------------------------------
(* The aggregated extraction of the handler against a fold of             *)
(* merge_extracted over the messages                                       *)

RECURSIVE fold_merge(_, _, _, _)
\* acc = merge_extracted(acc, extract_intelligence(msg.text)) for each message
fold_merge(h, i, order, acc) ==
    IF i > Len(h) THEN acc
    ELSE fold_merge(h, i + 1, order,
                    merge_extracted(acc, extract_intelligence(h[i], order)))

\* the fold over the history in order, then the current result
FoldedExtraction ==
    merge_extracted(fold_merge(history, 1, hash_order, EmptyDict), current_data)

RECURSIVE matches_in_order(_, _, _)
\* the per-message lists of category k, one after the other
matches_in_order(h, i, k) ==
    IF i > Len(h) THEN << >>
    ELSE extract_intelligence(h[i], hash_order)[k].list
            \o matches_in_order(h, i + 1, k)

AllMatches(k) == matches_in_order(history, 1, k) \o current_data[k].list

---------------------------------------------------------------------------
(* services/gemini_service.py: generate_response. The answer of the        *)
(* client is an input: it raises, it gives a response without text, or it  *)
(* gives a response with a text.                                           *)

Raises == << "Exception" >>

\* what a call gives: {raised, value}; value is what it returned
\* response.text.replace('"', '')
py_replace_quotes(t) == SelectSeq(t, LAMBDA c : c # "\"")

\* generate_response without its try / except: the exception of the client
\* leaves the function
generate_response_uncaught(active, answer) ==
    IF ~active THEN [raised |-> FALSE, value |-> NoneText]
    ELSE IF answer = Raises THEN [raised |-> TRUE, value |-> NoneText]
    ELSE IF IsFalsy(answer) THEN [raised |-> FALSE, value |-> NoneText]
    ELSE LET unquoted == py_strip(py_replace_quotes(answer))
             cleaned == IF StartsWith(py_lower(unquoted), 1, Chars("response:"))
                        THEN py_strip(SubSeq(unquoted, 10, Len(unquoted)))
                        ELSE unquoted
         IN  [raised |-> FALSE,
              value |-> SubSeq(cleaned, 1, Min(150, Len(cleaned)))]

generate_response(active, answer) ==
    IF ~active THEN [raised |-> FALSE, value |-> NoneText]
    ELSE IF answer = Raises
         THEN [raised |-> FALSE, value |-> NoneText]   \* except Exception
    ELSE IF IsFalsy(answer) THEN [raised |-> FALSE, value |-> NoneText]
    ELSE LET unquoted == py_strip(py_replace_quotes(answer))
             cleaned == IF StartsWith(py_lower(unquoted), 1, Chars("response:"))
                        THEN py_strip(SubSeq(unquoted, 10, Len(unquoted)))
                        ELSE unquoted
         \* text[:150]
         IN  [raised |-> FALSE,
              value |-> SubSeq(cleaned, 1, Min(150, Len(cleaned)))]

\* how the call ended, kept with the request for the properties
gemini_outcome(active, answer, value) ==
    IF ~active THEN "disabled"
    ELSE IF answer = Raises THEN "raised"
    ELSE IF IsFalsy(answer) THEN "no text"
    ELSE IF IsFalsy(value) THEN "empty text"
    ELSE "text"

\* the client raises; no text; a quoted sentence; a prefixed single
\* character; quotes around a blank; 152 characters
GeminiAnswers ==
    { Raises, NoneText,
      Chars("\"Ok sir\""),
      Chars("Response: k"),
      Chars("\" \""),
      [i \in 1..152 |-> IF i % 2 = 1 THEN "a" ELSE "b"] }

---------------------------------------------------------------------------
(* api/honeypot.py: the reply of one request, statement by statement       *)

\* the list the fallback reply is chosen from
fallback_candidates(phase_value, instr) ==
    IF phase_value = "EXTRACTION" /\ instr \in DOMAIN CONTEXT_EXTRACTION
    THEN CONTEXT_EXTRACTION[instr]
    ELSE IF phase_value = "CONFUSION" THEN CONFUSION_REPLIES
    ELSE IF phase_value = "EXTRACTION" THEN EXTRACTION_REPLIES
    ELSE IF phase_value = "TRUST" THEN TRUST_PHASE_REPLIES
    ELSE IF phase_value \in DOMAIN SAFE_FALLBACKS THEN SAFE_FALLBACKS[phase_value]
    ELSE SAFE_FALLBACKS["CONFUSION"]

\* `if not agent_reply`: the length is not looked at
safety_check_falsy_only(reply) ==
    IF IsFalsy(reply) THEN Chars("Sir I am confused, can you explain?")
    ELSE reply

\* if not agent_reply or len(agent_reply) < 2
safety_check(reply) ==
    IF IsFalsy(reply) \/ Len(reply) < 2
    THEN Chars("Sir I am confused, can you explain?")
    ELSE reply

\* one statement that draws `draws` values from the generator
Draw(r, f, draws) ==
    /\ requests' = [requests EXCEPT ![r] = f]
    /\ random_state' = random_state + draws
    /\ UNCHANGED gemini_active
    /\ UNCHANGED scalarVars

\* agent_reply = gemini_service.generate_response(...)
GenerateReply(r) ==
    LET f == locals(requests, r)
    IN  /\ f.pc = "reply"
        /\ \E answer \in GeminiAnswers :
              LET got == generate_response(gemini_active, answer)
                  g == [f EXCEPT !.gemini =
                           gemini_outcome(gemini_active, answer, got.value)]
              IN  IF got.raised
                  THEN ErrorFallback(r, g)
                  ELSE Store(r, [g EXCEPT
                          !.pc = IF IsFalsy(got.value) THEN "fallback"
                                                       ELSE "safety",
                          !.agent_reply = IF IsFalsy(got.value) THEN NoReply
                                          ELSE << "gemini", "" >>,
                          !.agent_reply_text = got.value])

\* if not agent_reply: random.choice over the list of the phase
FallbackReply(r) ==
    LET f == locals(requests, r)
        candidates == fallback_candidates(f.phase, f.instruction)
    IN  /\ f.pc = "fallback"
        /\ \E i \in 1..Len(candidates) :
              Draw(r, [f EXCEPT !.pc = "entropy",
                                !.agent_reply = fallback_table(f.phase, f.instruction),
                                !.agent_reply_text = Chars(candidates[i]),
                                !.drawn_at = random_state], 1)

\* if random.random() < 0.15 and history_len >= 2
EntropyReply(r) ==
    LET f == locals(requests, r)
    IN  /\ f.pc = "entropy"
        /\ \E below \in BOOLEAN :
              IF below /\ f.history_len >= 2
              THEN \E i \in 1..Len(HUMAN_VARIANTS) :
                      Draw(r, [f EXCEPT !.pc = "delay",
                                        !.agent_reply = << "HUMAN_VARIANTS", "" >>,
                                        !.agent_reply_text = Chars(HUMAN_VARIANTS[i])],
                           2)
              ELSE Draw(r, [f EXCEPT !.pc = "delay"], 1)

\* if random.random() < 0.1 and phase == Phase.EXIT
DelayReply(r) ==
    LET f == locals(requests, r)
    IN  /\ f.pc = "delay"
        /\ \E below \in BOOLEAN :
              IF below /\ f.phase = "EXIT"
              THEN \E i \in 1..Len(DELAY_REPLIES) :
                      Draw(r, [f EXCEPT !.pc = "safety",
                                        !.agent_reply = << "DELAY_REPLIES", "" >>,
                                        !.agent_reply_text = Chars(DELAY_REPLIES[i])],
                           2)
              ELSE Draw(r, [f EXCEPT !.pc = "safety"], 1)

\* the final safety check
SafetyCheck(r) ==
    LET f == locals(requests, r)
        checked == safety_check(f.agent_reply_text)
    IN  /\ f.pc = "safety"
        /\ Store(r, [f EXCEPT !.pc = "respond",
                              !.agent_reply = IF checked = f.agent_reply_text
                                              THEN f.agent_reply
                                              ELSE << "safety check", "" >>,
                              !.agent_reply_text = checked])

\* the request bodies: rejected ones, and one for each list the fallback
\* reads
HandlerInputs ==
    { [text |-> << >>, history |-> << >>],
      [text |-> << " ", "\n" >>, history |-> << Word_otp, Word_otp >>],
      [text |-> Chars(" OTP "), history |-> << >>],
      [text |-> Chars("now"), history |-> << Word_otp >>],
      [text |-> Chars("cvv b c d"), history |-> << >>],
      [text |-> Token_upi \o Chars(" b c d"), history |-> << Token_upi, Token_upi >>],
      [text |-> Chars("NOW"), history |-> << Word_otp, Word_otp, Word_otp, Word_otp >>] }

InitHandler ==
    /\ \E body \in HandlerInputs : requests = << NewRequest(body) >>
    /\ random_state = 0
    /\ gemini_active \in BOOLEAN
    /\ hash_order \in HashOrders
    /\ pc = "start"
    /\ history_len = 0
    /\ extracted = EmptyDict
    /\ behavioral = EmptyDict
    /\ instruction = NoneLabel
    /\ phase = "unset"
    /\ confidence = -1
    /\ history_data = EmptyDict
    /\ current_data = EmptyDict
    /\ merged = EmptyDict
    /\ text = << >>
    /\ history = << >>
    /\ scam_detected = FALSE

NextHandler ==
    \/ RequestValidate(1)
    \/ RequestExtract(1)
    \/ RequestAccumulate(1)
    \/ RequestMerge(1)
    \/ RequestSignals(1)
    \/ RequestRepetition(1)
    \/ RequestInstruction(1)
    \/ RequestScam(1)
    \/ RequestPhase(1)
    \/ GenerateReply(1)
    \/ FallbackReply(1)
    \/ EntropyReply(1)
    \/ DelayReply(1)
    \/ SafetyCheck(1)
    \/ RequestRespond(1)

SpecHandler == InitHandler /\ [][NextHandler]_vars

---------------------------------------------------------------------------
(* Claims about the handler: the reply, the rejection, the collaborator    *)

\* the sentences of a table, as strs
Sentences(table) == { Chars(table[i]) : i \in 1..Len(table) }

\* the table a phase is answered from
PhaseReplies(phase_value, instr) ==
    CASE phase_value = "EXTRACTION" ->
            IF instr \in { "ask_for_upi_id", "ask_for_otp", "ask_for_link_click",
                           "ask_for_bank_details" }
            THEN Sentences(CONTEXT_EXTRACTION[instr])
            ELSE Sentences(EXTRACTION_REPLIES)
      [] phase_value = "CONFUSION" -> Sentences(CONFUSION_REPLIES)
      [] phase_value = "TRUST" -> Sentences(TRUST_PHASE_REPLIES)
      [] phase_value = "EXIT" -> Sentences(SAFE_FALLBACKS["EXIT"])
      [] OTHER -> {}

\* every sentence of the reply tables of config.py
StaticSentences ==
    UNION { Sentences(SAFE_FALLBACKS[p]) : p \in DOMAIN SAFE_FALLBACKS }
    \cup UNION { Sentences(CONTEXT_EXTRACTION[k]) : k \in DOMAIN CONTEXT_EXTRACTION }
    \cup Sentences(TRUST_PHASE_REPLIES) \cup Sentences(CONFUSION_REPLIES)
    \cup Sentences(EXTRACTION_REPLIES) \cup Sentences(HUMAN_VARIANTS)
    \cup Sentences(DELAY_REPLIES)

\* the collaborator gave no reply: disabled, failed, or nothing usable
NoSuggestion(f) ==
    f.gemini \in { "disabled", "raised", "no text", "empty text" }

\* C21: whether the reply collaborator returns a string, returns no
\* suggestion, is disabled or raises, the request completes as a success
\* with the phase and the confidence the rules give for its message and
\* history; the failure never reaches the caller (only a blank message is
\* rejected); and with no suggestion the reply is drawn from the table of
\* the phase and is a sentence of the static tables when returned.
C21_CollaboratorNeverChangesClassification ==
    \A r \in DOMAIN requests :
        LET f == requests[r]
        IN  /\ f.result # "error"
            /\ f.pc = "entropy" =>
                  /\ NoSuggestion(f)
                  /\ f.agent_reply_text \in PhaseReplies(f.phase, f.instruction)
            /\ f.pc = "rejected" => AloneResponse(f.body).status = 400
            /\ f.pc = "responded" =>
                  LET alone == AloneResponse(f.body)
                  IN  /\ f.status = 200
                      /\ f.result = "success"
                      /\ f.gemini # "unset"
                      /\ alone.status = 200
                      /\ f.phase = alone.phase
                      /\ f.confidence = alone.confidence
                      /\ NoSuggestion(f) => f.agent_reply_text \in StaticSentences

\* the client raised and the request completed with the phase of the rules
C21_Witness ==
    /\ Len(requests) = 1
    /\ requests[1].pc = "responded"
    /\ requests[1].gemini = "raised"
    /\ requests[1].result = "success"
    /\ requests[1].phase = "EXTRACTION"
    /\ requests[1].agent_reply_text \in Sentences(EXTRACTION_REPLIES)

IsBlankText(t) == \A i \in 1..Len(t) : t[i] \in Whitespace

\* C27: a request whose message text is empty or whitespace-only is
\* rejected with status 400 before any extraction, signal detection, phase
\* decision or reply generation (its local variables are as at the start,
\* nothing was drawn), and the rejection is not turned into the "error"
\* fallback response.
C27_BlankMessageRejectedBeforeAnyWork ==
    \A r \in DOMAIN requests :
        LET f == requests[r]
        IN  IsBlankText(f.body.text) =>
              /\ f.pc \in { "validate", "rejected" }
              /\ f.result # "error"
              /\ f.pc = "rejected" =>
                    /\ f = [NewRequest(f.body) EXCEPT !.pc = "rejected",
                                                      !.status = 400]
                    /\ random_state = 0

\* a whitespace-only message with a history has been rejected
C27_Witness ==
    /\ Len(requests) = 1
    /\ requests[1].pc = "rejected"
    /\ requests[1].status = 400
    /\ requests[1].body.text # << >>
    /\ requests[1].body.history # << >>

\* C28: every response carries an agentReply of at least 2 characters; when
\* the collaborator gave no reply the agentReply is a sentence of the table
\* of the phase (for EXTRACTION the context table of the instruction when it
\* has one, else EXTRACTION_REPLIES; CONFUSION_REPLIES; TRUST_PHASE_REPLIES;
\* the EXIT fallbacks), or of HUMAN_VARIANTS only when historyLen >= 2, or of
\* DELAY_REPLIES only when the phase is EXIT.
C28_ReplyOfTwoCharactersFromTables ==
    \A r \in DOMAIN requests :
        LET f == requests[r]
        IN  f.pc = "responded" =>
              /\ ~IsFalsy(f.agent_reply_text)
              /\ Len(f.agent_reply_text) >= 2
              /\ NoSuggestion(f) =>
                    f.agent_reply_text \in
                        PhaseReplies(f.phase, f.instruction)
                        \cup (IF f.history_len >= 2
                              THEN Sentences(HUMAN_VARIANTS) ELSE {})
                        \cup (IF f.phase = "EXIT"
                              THEN Sentences(DELAY_REPLIES) ELSE {})

\* a suggestion of one character was replaced by the sentence of the
\* safety check
C28_Witness ==
    /\ Len(requests) = 1
    /\ requests[1].pc = "responded"
    /\ requests[1].gemini = "text"
    /\ requests[1].agent_reply = << "safety check", "" >>
    /\ Len(requests[1].agent_reply_text) >= 2

---------------------------------------------------------------------------
(* Requests served one after the other. The handler is an `async def`      *)
(* without an await, so the event loop runs each request to its end before *)
(* it starts the next one.                                                 *)

\* one request more than run concurrently; each is a first message or an
\* urgent message late in a conversation
InitSequence ==
    /\ \E choice \in [1..(NumRequests + 1) ->
                          { RequestInputs[2], RequestInputs[4] }] :
          requests = [r \in DOMAIN choice |-> NewRequest(choice[r])]
    /\ random_state = 0
    /\ gemini_active \in BOOLEAN
    /\ hash_order \in HashOrders
    /\ pc = "start"
    /\ history_len = 0
    /\ extracted = EmptyDict
    /\ behavioral = EmptyDict
    /\ instruction = NoneLabel
    /\ phase = "unset"
    /\ confidence = -1
    /\ history_data = EmptyDict
    /\ current_data = EmptyDict
    /\ merged = EmptyDict
    /\ text = << >>
    /\ history = << >>
    /\ scam_detected = FALSE

\* request r is served once the requests before it have returned
NextSequence ==
    \E r \in { n \in 1..(NumRequests + 1) :
                 \A q \in 1..(n - 1) :
                    requests[q].pc \in { "responded", "rejected" } } :
        \/ RequestValidate(r)
        \/ RequestExtract(r)
        \/ RequestAccumulate(r)
        \/ RequestMerge(r)
        \/ RequestSignals(r)
        \/ RequestRepetition(r)
        \/ RequestInstruction(r)
        \/ RequestScam(r)
        \/ RequestPhase(r)
        \/ RequestReply(r)
        \/ RequestRespond(r)

SpecSequence == InitSequence /\ [][NextSequence]_vars

\* C22: in a sequence of requests, two requests with the same message and
\* the same history return the same phase and the same confidence, whatever
\* was served before them and whatever reply was selected for them.
C22_PhaseAndConfidenceOfOwnInputOnly ==
    \A r, q \in DOMAIN requests :
        (/\ r < q
         /\ requests[q].pc = "responded"
         /\ requests[r].body = requests[q].body) =>
            /\ requests[r].pc = "responded"
            /\ requests[r].phase = requests[q].phase
            /\ requests[r].confidence = requests[q].confidence

\* the same body first and after a request that returned another phase,
\* with another reply and the generator elsewhere
C22_Witness ==
    /\ Len(requests) >= 3
    /\ \A r \in 1..3 : requests[r].pc = "responded"
    /\ requests[1].body = requests[3].body
    /\ requests[2].phase # requests[1].phase
    /\ requests[3].phase = requests[1].phase
    /\ requests[3].confidence = requests[1].confidence
    /\ requests[3].agent_reply # requests[1].agent_reply
    /\ requests[3].drawn_at # requests[1].drawn_at

---------------------------------------------------------------------------
(* A conversation that grows: the caller sends each request with the       *)
(* history of the one before, the message of the one before, and possibly  *)
(* a further message (the reply it was given). The handler aggregates the  *)
(* extraction of each request anew (api/honeypot.py).                      *)

\* messages of the scammer: a UPI id, a phone number between blanks, a
\* blank message
ConversationTexts ==
    { Token_upi, Space \o Token_phone \o Space, Space }

InitConversation ==
    /\ pc = "received"
    /\ text \in ConversationTexts
    /\ history = << >>
    /\ history_len = 0
    /\ hash_order \in HashOrders
    /\ requests = << >>
    /\ random_state = 0
    /\ gemini_active = FALSE
    /\ scam_detected = FALSE
    /\ history_data = EmptyDict
    /\ current_data = EmptyDict
    /\ merged = EmptyDict
    /\ extracted = EmptyDict
    /\ behavioral = EmptyDict
    /\ instruction = NoneLabel
    /\ phase = "unset"
    /\ confidence = -1

\* one request, up to the aggregated extraction: the message is stripped,
\* a blank one is rejected before anything is extracted
AggregateRequest ==
    LET last_message == py_strip(text)
    IN  /\ pc = "received"
        /\ IF last_message = << >>
           THEN /\ pc' = "rejected"
                /\ UNCHANGED mergeVars
                /\ UNCHANGED extracted
           ELSE /\ pc' = "aggregated"
                /\ current_data' = extract_intelligence(last_message, hash_order)
                /\ history_data' = historical_extracted(history, hash_order)
                /\ merged' = merge_extracted(history_data', current_data')
                /\ extracted' = merged'
        /\ UNCHANGED inputVars
        /\ UNCHANGED << behavioral, instruction, scam_detected, phase, confidence >>
        /\ UNCHANGED serverVars

\* the next request of the conversation; the caller may have added a
\* further message to the history
NextMessage ==
    /\ pc \in { "aggregated", "rejected" }
    /\ \E further \in { << >>, << Chars("ok") >> }, message \in ConversationTexts :
          /\ Len(history) + 1 + Len(further) <= MaxMessages
          /\ history' = Append(history, text) \o further
          /\ history_len' = Len(history')
          /\ text' = message
    /\ pc' = "received"
    /\ UNCHANGED hash_order
    /\ UNCHANGED mergeVars
    /\ UNCHANGED << extracted, behavioral, instruction, scam_detected, phase,
                    confidence >>
    /\ UNCHANGED serverVars

NextConversation == AggregateRequest \/ NextMessage

SpecConversation == InitConversation /\ [][NextConversation]_vars

\* every string of a list category of the last aggregated extraction is in
\* the same category of the one computed now
KeepsEveryItem ==
    (pc = "received" /\ pc' = "aggregated") =>
        \A k \in ListCategories :
            k \in DOMAIN merged =>
                /\ k \in DOMAIN merged'
                /\ Range(merged[k].list) \subseteq Range(merged'[k].list)

\* C26: as a conversation grows, the aggregated extraction never loses an
\* item: every string in a list category of the aggregated extraction of
\* one request is in that category for every later request.
C26_AggregationNeverLosesItem == [][KeepsEveryItem]_vars

\* a later request whose own message matches nothing new still lists the
\* phone number of an earlier message and the UPI id of the first
C26_Witness ==
    /\ pc = "aggregated"
    /\ Len(history) >= 3
    /\ history[1] = Token_upi
    /\ py_strip(text) = Token_upi
    /\ current_data["phoneNumbers"].list = << >>
    /\ merged["phoneNumbers"].list = << Token_phone >>
    /\ merged["upiIds"].list = << Token_upi >>

===========================================================================
